---- MODULE Spec2Model ----
(***************************************************************************)
(* Model of the Ollama MCP server's daemon clients:                        *)
(*   - the pooled async client  (src/ollama_mcp/infrastructure/            *)
(*     ollama_client.py), one call in flight at a time;                    *)
(*   - the dict-returning client (src/ollama_mcp/client.py), health_check. *)
(*                                                                         *)
(* Strings are sequences of string pieces, so that f-strings are           *)
(* concatenations and "the message names the model" is a subsequence test. *)
(* Optional values are sequences of length at most one.                    *)
(***************************************************************************)
EXTENDS Integers, Sequences, FiniteSets, TLC

\* ---------------------------------------------------------------- bounds
MaxEntries == 2      \* entries in the `models` array of a listing
MaxLines == 2        \* lines of a streaming response
NumPullers == 2      \* concurrent callers of pull_model
MaxPulls == 2        \* pull_model calls that have returned
MaxClock == 1        \* largest value of the clock the pulls read
NumTasks == 2        \* coroutines sharing one pooled client
MaxPools == 2        \* pools constructed over the life of one client
MaxFailures == 2     \* failing tool calls counted on one server
MaxPosts == 1        \* generate requests kept in the log of what was posted
MaxNameLen == 3      \* characters of a name handed to ModelInfo
MaxReads == 2        \* reads of a size property on one object
MaxAbandoned == 1    \* blocking calls left running after their deadline
MaxTime == 1         \* largest value read from time.time()

\* ------------------------------------------------------- strings, options
None == <<>>
Some(v) == <<v>>

Whitespace == {" ", "\t", "\n", "\r"}

RECURSIVE LStrip(_)
LStrip(s) ==
    IF s # <<>> /\ Head(s) \in Whitespace THEN LStrip(Tail(s)) ELSE s

RECURSIVE RStrip(_)
RStrip(s) ==
    IF s # <<>> /\ s[Len(s)] \in Whitespace
        THEN RStrip(SubSeq(s, 1, Len(s) - 1))
        ELSE s

\* str.strip()
Strip(s) == RStrip(LStrip(s))

\* str.replace(old, new) for one-character old and new
Replace(s, old, new) ==
    [i \in 1..Len(s) |-> IF s[i] = old THEN new ELSE s[i]]

\* `sub in s`
Contains(s, sub) ==
    \E i \in 0..(Len(s) - Len(sub)) : SubSeq(s, i + 1, i + Len(sub)) = sub

\* a str is empty when every piece of it is
IsEmptyStr(s) == \A i \in 1..Len(s) : s[i] = ""

Digit == <<"0", "1", "2", "3", "4", "5", "6", "7", "8", "9">>

RECURSIVE IntStr(_)
\* str(n) for n >= 0
IntStr(n) ==
    IF n < 10 THEN <<Digit[n + 1]>>
    ELSE IntStr(n \div 10) \o <<Digit[(n % 10) + 1]>>

\* ------------------------------------------------------------ model names
M1 == <<"m", "1">>
M2 == <<"m", ":", "2">>
GHOST == <<"g">>
EMPTY == <<>>
BLANK == <<" ">>

\* names a caller may pass
ArgNames == {M1, M2, GHOST, EMPTY, BLANK}

\* ------------------------------------------------------------- exceptions
\* The direct base class of each exception class the clients can meet.
Base(cls) ==
    CASE cls = "httpx.ConnectError" -> "httpx.RequestError"
      [] cls = "httpx.TimeoutException" -> "httpx.RequestError"
      [] cls = "httpx.ReadError" -> "httpx.RequestError"
      [] cls = "httpx.RequestError" -> "Exception"
      [] cls = "httpx.HTTPStatusError" -> "Exception"
      [] cls = "json.JSONDecodeError" -> "ValueError"
      [] cls = "pydantic.ValidationError" -> "ValueError"
      [] cls = "OllamaConnectionError" -> "OllamaMCPError"
      [] cls = "ModelNotFoundError" -> "OllamaMCPError"
      [] cls = "DownloadError" -> "OllamaMCPError"
      [] cls = "ValidationError" -> "OllamaMCPError"
      [] cls = "Exception" -> "BaseException"
      [] cls = "BaseException" -> "BaseException"
      [] OTHER -> "Exception"

RECURSIVE IsInstance(_, _)
\* isinstance(e, cls), which is what an `except cls` clause tests
IsInstance(type, cls) ==
    IF type = cls THEN TRUE
    ELSE IF type = "BaseException" THEN FALSE
    ELSE IsInstance(Base(type), cls)

\* an exception object: its class and str(e)
Exc(type, msg) == [type |-> type, msg |-> msg]

Raise(e) == [kind |-> "raise", exc |-> e]
Return(v) == [kind |-> "return", val |-> v]
NoResult == [kind |-> "none"]

\* the typed outcomes the client contract names
TypedErrors == {"OllamaConnectionError", "ModelNotFoundError", "ValidationError"}

\* ---------------------------------------------------------------- settings
\* Settings.allowed_models / blocked_models: None or a set of names
AllowedLists == {None, Some({M1, GHOST})}
BlockedLists == {None, Some({GHOST})}

\* truthiness of an Optional[Set[str]]
Truthy(optset) == optset # None /\ optset[1] # {}

\* the allowed list consulted before the blocked one
is_model_allowed_AllowedFirst(allowed, blocked, model_name) ==
    IF Truthy(allowed) THEN model_name \in allowed[1]
    ELSE IF Truthy(blocked) /\ model_name \in blocked[1] THEN FALSE
    ELSE TRUE

is_model_allowed(allowed, blocked, model_name) ==
    IF Truthy(blocked) /\ model_name \in blocked[1] THEN FALSE
    ELSE IF Truthy(allowed) THEN model_name \in allowed[1]
    ELSE TRUE

\* a str value of a list setting, given as the pieces v.split(",") yields
\* ("" splits into one empty piece)
StrList(items) == [t |-> "str", items |-> items]

\* the "before" validator of allowed_models / blocked_models: None and ""
\* give None, any other str the set of its stripped non-empty pieces
parse_model_lists(v) ==
    IF v = None \/ v = StrList(<<EMPTY>>) THEN None
    ELSE Some({Strip(v.items[i]) : i \in {j \in 1..Len(v.items) : Strip(v.items[j]) # EMPTY}})

BaseUrl == <<"http://localhost:11434">>

\* ------------------------------------------------------- daemon behaviour
\* What one request to the daemon ends in: an exception of the HTTP layer,
\* or a response with a status, a raw text and (for the endpoints that
\* decode it) the JSON value the text holds.
HttpFailures ==
    { Exc("httpx.ConnectError", <<"All connection attempts failed">>),
      Exc("httpx.TimeoutException", <<>>),
      Exc("httpx.ReadError", <<"peer reset">>),
      Exc("RuntimeError", <<"boom">>) }

\* what constructing httpx.AsyncClient(..., http2=True) can raise
PoolFailures == { Exc("ImportError", <<"h2 is not installed">>) }

Failure(e) == [kind |-> "exc", exc |-> e]
Response(status, text, json) ==
    [kind |-> "resp", status |-> status, text |-> text, json |-> json]

Statuses == {200, 201, 404, 500}
ErrorTexts == {<<>>, <<"oops">>}

Fld(t, v) == [t |-> t, v |-> v]

\* ---- GET /api/tags bodies
NoDetails ==
    [families |-> Fld("missing", <<>>), format |-> Fld("missing", <<>>),
     parameter_size |-> Fld("missing", <<>>),
     quantization_level |-> Fld("missing", <<>>)]

SomeDetails ==
    [families |-> Fld("list", <<<<"llama">>>>), format |-> Fld("str", <<"gguf">>),
     parameter_size |-> Fld("str", <<"7B">>),
     quantization_level |-> Fld("null", <<>>)]

TsZ == <<"2024-01-01T12:00:00", "Z">>
TsBad == <<"yesterday">>

GoodEntry ==
    [isobj |-> TRUE,
     name |-> Fld("str", M1),
     size |-> Fld("int", 2048),
     digest |-> Fld("str", <<"sha256:ab">>),
     modified_at |-> Fld("str", TsZ),
     details |-> Fld("missing", NoDetails)]

\* entries the daemon's listing can hold, well-formed and malformed
EntryPool ==
    { GoodEntry,
      [GoodEntry EXCEPT !.name = Fld("str", M2), !.size = Fld("int", 0),
                        !.digest = Fld("missing", <<>>),
                        !.details = Fld("obj", SomeDetails)],
      [GoodEntry EXCEPT !.size = Fld("int", 7)],
      [GoodEntry EXCEPT !.name = Fld("missing", <<>>)],
      [GoodEntry EXCEPT !.name = Fld("str", <<"m", "!">>)],
      [GoodEntry EXCEPT !.size = Fld("null", 0)],
      [GoodEntry EXCEPT !.modified_at = Fld("str", TsBad)],
      [GoodEntry EXCEPT !.modified_at = Fld("null", <<>>)],
      [GoodEntry EXCEPT !.details = Fld("null", NoDetails)],
      [GoodEntry EXCEPT !.isobj = FALSE] }

RECURSIVE SeqsUpTo(_, _)
\* the sequences over S of length at most n
SeqsUpTo(S, n) ==
    IF n = 0 THEN {<<>>}
    ELSE LET shorter == SeqsUpTo(S, n - 1)
         IN shorter \cup {Append(q, x) : q \in {r \in shorter : Len(r) = n - 1}, x \in S}

\* t: "invalid" (not JSON), "array" (JSON, not an object), "object"
TagsJson(t, models) == [t |-> t, models |-> models]

TagsBodies ==
    { TagsJson("invalid", Fld("missing", <<>>)),
      TagsJson("array", Fld("missing", <<>>)),
      TagsJson("object", Fld("missing", <<>>)),
      TagsJson("object", Fld("null", <<>>)) }
    \cup { TagsJson("object", Fld("array", es)) : es \in SeqsUpTo(EntryPool, MaxEntries) }

TagsReplies ==
    { Failure(e) : e \in HttpFailures }
    \cup { Response(s, <<>>, TagsJson("invalid", Fld("missing", <<>>))) : s \in Statuses \ {200} }
    \cup { Response(200, <<>>, j) : j \in TagsBodies }

\* -------------------------------------------------------------- ModelInfo
Letters ==
    {"a", "b", "c", "d", "e", "f", "g", "h", "i", "j", "k", "l", "m", "n", "o",
     "p", "q", "r", "s", "t", "u", "v", "w", "x", "y", "z",
     "A", "B", "C", "D", "E", "F", "G", "H", "I", "J", "K", "L", "M", "N", "O",
     "P", "Q", "R", "S", "T", "U", "V", "W", "X", "Y", "Z"}
NameChars ==
    Letters \cup {"0", "1", "2", "3", "4", "5", "6", "7", "8", "9"} \cup {".", "_", ":", "-"}

AllNameChars(v) == v # <<>> /\ \A i \in 1..Len(v) : v[i] \in NameChars

\* re.match(r'^[a-zA-Z0-9._:-]+$', v): `$` also matches before a final newline
NameRegexMatches(v) ==
    \/ AllNameChars(v)
    \/ /\ v # <<>>
       /\ v[Len(v)] = "\n"
       /\ AllNameChars(SubSeq(v, 1, Len(v) - 1))

\* ModelInfo.validate_model_name: [ok, name]
validate_model_name(v) ==
    IF v = <<>> THEN [ok |-> FALSE, name |-> v]
    ELSE IF ~NameRegexMatches(v) THEN [ok |-> FALSE, name |-> v]
    ELSE [ok |-> TRUE, name |-> Strip(v)]

\* datetime.fromisoformat accepts these texts (before 3.11 not a final "Z")
IsoTexts ==
    { <<"2024-01-01T12:00:00", "+00:00">>, <<"2024-01-01T12:00:00">> }

\* an Optional[str] field read with .get(key)
OptStr(f) == IF f.t = "str" THEN Some(f.v) ELSE None

Ok(v) == [ok |-> TRUE, val |-> v]
Err(type, msg) == [ok |-> FALSE, exc |-> Exc(type, msg)]

\* The body of the per-entry try of list_models: the ModelInfo built from one
\* entry, or the first exception its construction raises, in Python's
\* evaluation order of the keyword arguments.
ParseEntry(e) ==
    IF ~e.isobj THEN Err("TypeError", <<"string indices must be integers">>)
    ELSE IF e.name.t = "missing" THEN Err("KeyError", <<"'name'">>)
    ELSE IF e.size.t = "missing" THEN Err("KeyError", <<"'size'">>)
    ELSE IF e.size.t # "int" THEN Err("pydantic.ValidationError", <<"bytes">>)
    ELSE IF e.modified_at.t = "missing" THEN Err("KeyError", <<"'modified_at'">>)
    ELSE IF e.modified_at.t # "str"
        THEN Err("AttributeError", <<"object has no attribute 'replace'">>)
    ELSE IF Replace(e.modified_at.v, "Z", "+00:00") \notin IsoTexts
        THEN Err("ValueError", <<"Invalid isoformat string">>)
    ELSE IF e.details.t \notin {"missing", "obj"}
        THEN Err("AttributeError", <<"object has no attribute 'get'">>)
    ELSE IF e.name.t # "str" THEN Err("pydantic.ValidationError", <<"name">>)
    ELSE IF ~validate_model_name(e.name.v).ok
        THEN Err("pydantic.ValidationError", <<"name">>)
    ELSE IF e.digest.t \notin {"missing", "null", "str"}
        THEN Err("pydantic.ValidationError", <<"digest">>)
    ELSE IF e.details.v.families.t \notin {"missing", "null", "list"}
        THEN Err("pydantic.ValidationError", <<"families">>)
    ELSE Ok([name |-> validate_model_name(e.name.v).name,
             size |-> e.size.v,
             digest |-> OptStr(e.digest),
             modified |-> Replace(e.modified_at.v, "Z", "+00:00"),
             families |-> IF e.details.v.families.t = "null" THEN None
                          ELSE Some(e.details.v.families.v),
             format |-> OptStr(e.details.v.format),
             parameter_size |-> OptStr(e.details.v.parameter_size),
             quantization_level |-> OptStr(e.details.v.quantization_level)])

\* except (KeyError, ValueError, ValidationError) of the per-entry try
EntryErrorSkipped(type) ==
    \/ IsInstance(type, "KeyError")
    \/ IsInstance(type, "ValueError")
    \/ IsInstance(type, "pydantic.ValidationError")

RECURSIVE ParseEntries(_, _)
\* the for loop of list_models over models_data, `models` the list so far:
\* the list returned, or the exception that leaves the loop
ParseEntries(es, models) ==
    IF es = <<>> THEN Ok(models)
    ELSE LET r == ParseEntry(Head(es))
         IN IF r.ok THEN ParseEntries(Tail(es), Append(models, r.val))
            ELSE IF EntryErrorSkipped(r.exc.type) THEN ParseEntries(Tail(es), models)
            ELSE r

\* the try block of list_models after the awaits, on the daemon's reply
list_models_try(reply) ==
    IF reply.kind = "exc" THEN Raise(reply.exc)
    ELSE IF reply.status # 200
        THEN Raise(Exc("OllamaConnectionError",
                       <<"Failed to list models: HTTP ">> \o IntStr(reply.status)))
    ELSE IF reply.json.t = "invalid"
        THEN Raise(Exc("json.JSONDecodeError", <<"Expecting value">>))
    ELSE IF reply.json.t # "object"
        THEN Raise(Exc("AttributeError", <<"object has no attribute 'get'">>))
    ELSE IF reply.json.models.t = "missing" THEN Return(<<>>)
    ELSE IF reply.json.models.t # "array"
        THEN Raise(Exc("TypeError", <<"object is not iterable">>))
    ELSE LET r == ParseEntries(reply.json.models.v, <<>>)
         IN IF r.ok THEN Return(r.val) ELSE Raise(r.exc)

\* list_models' handlers without the final `except Exception`: an error of
\* the response handling would leave list_models as it was raised
list_models_except_NoCatchAll(e) ==
    IF IsInstance(e.type, "httpx.RequestError")
        THEN Exc("OllamaConnectionError", <<"Network error: ">> \o e.msg)
    ELSE IF IsInstance(e.type, "json.JSONDecodeError")
        THEN Exc("ValidationError", <<"Invalid JSON response: ">> \o e.msg)
    ELSE e

\* the except clauses of list_models
list_models_except(e) ==
    IF IsInstance(e.type, "httpx.RequestError")
        THEN Exc("OllamaConnectionError", <<"Network error: ">> \o e.msg)
    ELSE IF IsInstance(e.type, "json.JSONDecodeError")
        THEN Exc("ValidationError", <<"Invalid JSON response: ">> \o e.msg)
    ELSE IF IsInstance(e.type, "Exception")
        THEN Exc("OllamaConnectionError", <<"Unexpected error: ">> \o e.msg)
    ELSE e

list_models(reply) ==
    LET r == list_models_try(reply)
    IN IF r.kind = "raise" THEN Raise(list_models_except(r.exc)) ELSE r

RECURSIVE FirstNamed_Last(_, _)
\* a loop that keeps looking after a match: the last descriptor wins
FirstNamed_Last(models, model_name) ==
    IF models = <<>> THEN None
    ELSE LET rest == FirstNamed_Last(Tail(models), model_name)
         IN IF rest # None THEN rest
            ELSE IF Head(models).name = model_name THEN Some(Head(models))
            ELSE None

RECURSIVE FirstNamed(_, _)
\* the for loop of get_model_info
FirstNamed(models, model_name) ==
    IF models = <<>> THEN None
    ELSE IF Head(models).name = model_name THEN Some(Head(models))
    ELSE FirstNamed(Tail(models), model_name)

\* get_model_info: list_models, then the first match; an error is re-raised
get_model_info(reply, model_name) ==
    LET r == list_models(reply)
    IN IF r.kind = "raise" THEN r
       ELSE Return(FirstNamed(r.val, model_name))

\* ---------------------------------------------------- health_check (pooled)
Timeout == <<"30.0">>

\* HealthStatus (last_checked, a wall-clock stamp, is left out)
HealthStatus(healthy, models_count, response_time_ms, error) ==
    [healthy |-> healthy, host |-> BaseUrl, models_count |-> models_count,
     response_time_ms |-> response_time_ms, error |-> error]

\* the try block of health_check on the daemon's reply; elapsed is
\* time.time() - start_time
health_check_try(reply, elapsed) ==
    IF reply.kind = "exc" THEN Raise(reply.exc)
    ELSE IF reply.status = 200 THEN
        IF reply.json.t = "invalid"
            THEN Return(HealthStatus(FALSE, 0, Some(elapsed * 1000),
                                     Some(<<"Invalid JSON response from server">>)))
        ELSE IF reply.json.t # "object"
            THEN Raise(Exc("AttributeError", <<"object has no attribute 'get'">>))
        ELSE IF reply.json.models.t = "missing"
            THEN Return(HealthStatus(TRUE, 0, Some(elapsed * 1000), None))
        ELSE IF reply.json.models.t # "array"
            THEN Raise(Exc("TypeError", <<"object has no len()">>))
        ELSE Return(HealthStatus(TRUE, Len(reply.json.models.v),
                                 Some(elapsed * 1000), None))
    ELSE Return(HealthStatus(FALSE, 0, Some(elapsed * 1000),
                             Some(<<"Server returned status ">> \o IntStr(reply.status))))

\* health_check's handlers without the final `except Exception`: any other
\* error would leave health_check
health_check_except_NoCatchAll(e, elapsed) ==
    IF IsInstance(e.type, "httpx.ConnectError")
        THEN Return(HealthStatus(FALSE, 0, None, Some(<<"Connection failed: ">> \o e.msg)))
    ELSE IF IsInstance(e.type, "httpx.TimeoutException")
        THEN Return(HealthStatus(FALSE, 0, Some(elapsed * 1000),
                                 Some(<<"Request timeout after ">> \o Timeout \o <<"s">>)))
    ELSE Raise(e)

\* the except clauses of health_check: each returns a HealthStatus
health_check_except(e, elapsed) ==
    IF IsInstance(e.type, "httpx.ConnectError")
        THEN Return(HealthStatus(FALSE, 0, None, Some(<<"Connection failed: ">> \o e.msg)))
    ELSE IF IsInstance(e.type, "httpx.TimeoutException")
        THEN Return(HealthStatus(FALSE, 0, Some(elapsed * 1000),
                                 Some(<<"Request timeout after ">> \o Timeout \o <<"s">>)))
    ELSE IF IsInstance(e.type, "Exception")
        THEN Return(HealthStatus(FALSE, 0, None, Some(<<"Unexpected error: ">> \o e.msg)))
    ELSE Raise(e)

health_check(reply, elapsed) ==
    LET r == health_check_try(reply, elapsed)
    IN IF r.kind = "raise" THEN health_check_except(r.exc, elapsed) ELSE r

\* -------------------------------------------------------------------- chat
\* ChatRequest as built by the caller
ChatRequest(model) ==
    [model |-> model, message |-> <<"hi">>, temperature |-> <<"0.7">>,
     max_tokens |-> None, stream |-> FALSE]

GoodGen ==
    [t |-> "object",
     response |-> Fld("str", <<"hello">>),
     total_duration |-> Fld("int", 5000000),
     load_duration |-> Fld("int", 1000000),
     prompt_eval_count |-> Fld("int", 3),
     prompt_eval_duration |-> Fld("int", 500000),
     eval_count |-> Fld("int", 10),
     eval_duration |-> Fld("int", 2000000000),
     context |-> Fld("array", 2)]

\* POST /api/generate bodies with "stream": false
GenerateBodies ==
    { GoodGen,
      [GoodGen EXCEPT !.t = "invalid"],
      [GoodGen EXCEPT !.t = "array"],
      [GoodGen EXCEPT !.response = Fld("missing", <<>>)],
      [GoodGen EXCEPT !.response = Fld("null", <<>>)],
      [GoodGen EXCEPT !.response = Fld("int", <<>>)],
      [GoodGen EXCEPT !.total_duration = Fld("missing", 0)],
      [GoodGen EXCEPT !.total_duration = Fld("null", 0)],
      [GoodGen EXCEPT !.load_duration = Fld("str", 0)],
      [GoodGen EXCEPT !.prompt_eval_duration = Fld("missing", 0)],
      [GoodGen EXCEPT !.prompt_eval_count = Fld("missing", 0)],
      [GoodGen EXCEPT !.eval_count = Fld("missing", 0)],
      [GoodGen EXCEPT !.eval_count = Fld("str", 0)],
      [GoodGen EXCEPT !.eval_duration = Fld("missing", 0)],
      [GoodGen EXCEPT !.eval_duration = Fld("int", 0)],
      [GoodGen EXCEPT !.eval_duration = Fld("null", 0)],
      [GoodGen EXCEPT !.context = Fld("missing", 0)],
      [GoodGen EXCEPT !.context = Fld("array", 0)] }

GenerateReplies ==
    { Failure(e) : e \in HttpFailures }
    \cup { Response(s, t, [GoodGen EXCEPT !.t = "invalid"]) :
             s \in Statuses \ {200}, t \in ErrorTexts }
    \cup { Response(200, <<>>, j) : j \in GenerateBodies }

\* x / 1_000_000 as a decimal with six fractional digits
DivMillion(x) == [whole |-> x \div 1000000, micro |-> x % 1000000]

\* data.get(key, 0) / 1_000_000
DurationMs(f) ==
    IF f.t = "missing" THEN Ok(DivMillion(0))
    ELSE IF f.t = "int" THEN Ok(DivMillion(f.v))
    ELSE Err("TypeError", <<"unsupported operand type(s) for /">>)

\* an Optional[int] field read with .get(key)
OptInt(f) == IF f.t = "int" THEN Some(f.v) ELSE None

\* the try block of chat after the awaits, on the daemon's reply
chat_try(reply, request) ==
    IF reply.kind = "exc" THEN Raise(reply.exc)
    ELSE IF reply.status = 404
        THEN Raise(Exc("ModelNotFoundError",
                       <<"Model '">> \o request.model \o <<"' not found">>))
    ELSE IF reply.status # 200
        THEN Raise(Exc("OllamaConnectionError",
                       <<"Chat request failed: HTTP ">> \o IntStr(reply.status)
                           \o <<" - ">> \o reply.text))
    ELSE LET data == reply.json
         IN IF data.t = "invalid"
                THEN Raise(Exc("json.JSONDecodeError", <<"Expecting value">>))
            ELSE IF data.t # "object"
                THEN Raise(Exc("TypeError", <<"list indices must be integers">>))
            ELSE IF data.response.t = "missing"
                THEN Raise(Exc("KeyError", <<"'response'">>))
            ELSE IF ~DurationMs(data.total_duration).ok
                THEN Raise(DurationMs(data.total_duration).exc)
            ELSE IF ~DurationMs(data.load_duration).ok
                THEN Raise(DurationMs(data.load_duration).exc)
            ELSE IF ~DurationMs(data.prompt_eval_duration).ok
                THEN Raise(DurationMs(data.prompt_eval_duration).exc)
            ELSE IF ~DurationMs(data.eval_duration).ok
                THEN Raise(DurationMs(data.eval_duration).exc)
            ELSE IF data.response.t # "str"
                THEN Raise(Exc("pydantic.ValidationError", <<"response">>))
            ELSE IF data.prompt_eval_count.t \notin {"missing", "null", "int"}
                THEN Raise(Exc("pydantic.ValidationError", <<"prompt_eval_count">>))
            ELSE IF data.eval_count.t \notin {"missing", "null", "int"}
                THEN Raise(Exc("pydantic.ValidationError", <<"eval_count">>))
            ELSE Return([response |-> data.response.v,
                         model |-> request.model,
                         total_duration_ms |-> Some(DurationMs(data.total_duration).val),
                         load_duration_ms |-> Some(DurationMs(data.load_duration).val),
                         prompt_eval_count |-> OptInt(data.prompt_eval_count),
                         prompt_eval_duration_ms |->
                             Some(DurationMs(data.prompt_eval_duration).val),
                         eval_count |-> OptInt(data.eval_count),
                         eval_duration_ms |-> Some(DurationMs(data.eval_duration).val),
                         context_length |->
                             IF data.context.t = "array" /\ data.context.v > 0
                                 THEN Some(data.context.v) ELSE None])

\* chat's handlers with a final `except Exception` as list_models has: the
\* errors raised for a status would be wrapped again
chat_except_CatchAll(e) ==
    IF IsInstance(e.type, "httpx.RequestError")
        THEN Exc("OllamaConnectionError", <<"Network error: ">> \o e.msg)
    ELSE IF IsInstance(e.type, "json.JSONDecodeError")
        THEN Exc("ValidationError", <<"Invalid JSON response: ">> \o e.msg)
    ELSE IF IsInstance(e.type, "pydantic.ValidationError")
        THEN Exc("ValidationError", <<"Invalid response format: ">> \o e.msg)
    ELSE IF IsInstance(e.type, "Exception")
        THEN Exc("OllamaConnectionError", <<"Unexpected error: ">> \o e.msg)
    ELSE e

\* the except clauses of chat; anything else propagates unchanged
chat_except(e) ==
    IF IsInstance(e.type, "httpx.RequestError")
        THEN Exc("OllamaConnectionError", <<"Network error: ">> \o e.msg)
    ELSE IF IsInstance(e.type, "json.JSONDecodeError")
        THEN Exc("ValidationError", <<"Invalid JSON response: ">> \o e.msg)
    ELSE IF IsInstance(e.type, "pydantic.ValidationError")
        THEN Exc("ValidationError", <<"Invalid response format: ">> \o e.msg)
    ELSE e

chat(reply, request) ==
    LET r == chat_try(reply, request)
    IN IF r.kind = "raise" THEN Raise(chat_except(r.exc)) ELSE r

\* chat without its policy check, as chat_stream is written
chat_validate_Unchecked(allowed, blocked, request) == NoResult

\* the policy check chat makes before its try block
chat_validate(allowed, blocked, request) ==
    IF ~is_model_allowed(allowed, blocked, request.model)
        THEN Raise(Exc("ValidationError",
                       <<"Model '">> \o request.model \o <<"' is not allowed">>))
    ELSE NoResult

\* --------------------------------------------------------- show_model_info
ShowBodies == { [t |-> "invalid"], [t |-> "array"], [t |-> "object"] }

ShowReplies ==
    { Failure(e) : e \in HttpFailures }
    \cup { Response(s, t, [t |-> "invalid"]) : s \in Statuses \ {200}, t \in ErrorTexts }
    \cup { Response(200, <<>>, j) : j \in ShowBodies }

show_model_info_try(reply, model_name) ==
    IF reply.kind = "exc" THEN Raise(reply.exc)
    ELSE IF reply.status = 404
        THEN Raise(Exc("ModelNotFoundError",
                       <<"Model '">> \o model_name \o <<"' not found">>))
    ELSE IF reply.status # 200
        THEN Raise(Exc("OllamaConnectionError",
                       <<"Failed to get model info: HTTP ">> \o IntStr(reply.status)
                           \o <<" - ">> \o reply.text))
    ELSE IF reply.json.t = "invalid"
        THEN Raise(Exc("json.JSONDecodeError", <<"Expecting value">>))
    ELSE Return(reply.json)

show_model_info_except(e) ==
    IF IsInstance(e.type, "httpx.RequestError")
        THEN Exc("OllamaConnectionError", <<"Network error: ">> \o e.msg)
    ELSE IF IsInstance(e.type, "json.JSONDecodeError")
        THEN Exc("ValidationError", <<"Invalid JSON response: ">> \o e.msg)
    ELSE e

show_model_info(reply, model_name) ==
    LET r == show_model_info_try(reply, model_name)
    IN IF r.kind = "raise" THEN Raise(show_model_info_except(r.exc)) ELSE r

\* ------------------------------------------------------------ delete_model
\* client.delete("/api/delete", json=payload): httpx's AsyncClient.delete
\* takes no request body, so the call raises before anything is sent
DeleteKwargError ==
    Exc("TypeError",
        <<"AsyncClient.delete() got an unexpected keyword argument 'json'">>)

\* the try block of delete_model from the point where the call has raised
\* or answered
delete_model_try(reply, model_name) ==
    IF reply.kind = "exc" THEN Raise(reply.exc)
    ELSE IF reply.status = 404
        THEN Raise(Exc("ModelNotFoundError",
                       <<"Model '">> \o model_name \o <<"' not found">>))
    ELSE IF reply.status = 200 THEN Return(TRUE)
    ELSE Return(FALSE)

delete_model_except(e) ==
    IF IsInstance(e.type, "httpx.RequestError")
        THEN Exc("OllamaConnectionError", <<"Network error: ">> \o e.msg)
    ELSE IF IsInstance(e.type, "ModelNotFoundError") THEN e
    ELSE IF IsInstance(e.type, "Exception")
        THEN Exc("OllamaConnectionError", <<"Unexpected error: ">> \o e.msg)
    ELSE e

delete_model(reply, model_name) ==
    LET r == delete_model_try(reply, model_name)
    IN IF r.kind = "raise" THEN Raise(delete_model_except(r.exc)) ELSE r

\* -------------------------------------------------------------- pull_model
\* what the await of a request with an unread body ends with
PlainReplies ==
    { Failure(e) : e \in HttpFailures }
    \cup { Response(s, t, [t |-> "invalid"]) : s \in Statuses, t \in ErrorTexts }

\* f"pull-{model_name.replace(':', '-')}-{int(time.time())}"
JobId(model_name, now) ==
    <<"pull-">> \o Replace(model_name, ":", "-") \o <<"-">> \o IntStr(now)

\* DownloadProgress (started_at and the unset optional fields are left out)
DownloadProgress(job_id, model_name, status, progress_percent, error_message, completed_at) ==
    [job_id |-> job_id, model_name |-> model_name, status |-> status,
     progress_percent |-> progress_percent, bytes_downloaded |-> 0,
     error_message |-> error_message, completed_at |-> completed_at]

\* pull_model's validation without the strip(): a blank name goes on
pull_model_validate_NoStrip(allowed, blocked, model_name) ==
    IF model_name = <<>>
        THEN Raise(Exc("ValidationError", <<"Model name cannot be empty">>))
    ELSE IF ~is_model_allowed(allowed, blocked, model_name)
        THEN Raise(Exc("ValidationError",
                       <<"Model '">> \o model_name \o <<"' is not allowed">>))
    ELSE NoResult

\* the two checks pull_model makes before its try block
pull_model_validate(allowed, blocked, model_name) ==
    IF model_name = <<>> \/ Strip(model_name) = <<>>
        THEN Raise(Exc("ValidationError", <<"Model name cannot be empty">>))
    ELSE IF ~is_model_allowed(allowed, blocked, model_name)
        THEN Raise(Exc("ValidationError",
                       <<"Model '">> \o model_name \o <<"' is not allowed">>))
    ELSE NoResult

\* the try block of pull_model after the await; job_id was made before it,
\* now is the clock when the response is handled
pull_model_try(reply, model_name, job_id, now) ==
    IF reply.kind = "exc" THEN Raise(reply.exc)
    ELSE IF reply.status = 404
        THEN Return(DownloadProgress(job_id, model_name, "failed", 0,
                 Some(<<"Model '">> \o model_name \o <<"' not found in Ollama Hub">>),
                 None))
    ELSE IF reply.status # 200
        THEN Return(DownloadProgress(job_id, model_name, "failed", 0,
                 Some(<<"Pull failed: HTTP ">> \o IntStr(reply.status)
                          \o <<" - ">> \o reply.text),
                 None))
    ELSE Return(DownloadProgress(job_id, model_name, "completed", 100, None, Some(now)))

\* pull_model's handlers without the final `except Exception`: an error that
\* is no httpx.RequestError would leave pull_model
pull_model_except_NoCatchAll(e, model_name, now) ==
    IF IsInstance(e.type, "httpx.RequestError")
        THEN Return(DownloadProgress(JobId(model_name, now), model_name, "failed", 0,
                                     Some(<<"Network error: ">> \o e.msg), None))
    ELSE Raise(e)

\* the except clauses of pull_model: each makes a job id anew and returns
pull_model_except(e, model_name, now) ==
    IF IsInstance(e.type, "httpx.RequestError")
        THEN Return(DownloadProgress(JobId(model_name, now), model_name, "failed", 0,
                                     Some(<<"Network error: ">> \o e.msg), None))
    ELSE IF IsInstance(e.type, "Exception")
        THEN Return(DownloadProgress(JobId(model_name, now), model_name, "failed", 0,
                                     Some(<<"Unexpected error: ">> \o e.msg), None))
    ELSE Raise(e)

pull_model(reply, model_name, job_id, now) ==
    LET r == pull_model_try(reply, model_name, job_id, now)
    IN IF r.kind = "raise" THEN pull_model_except(r.exc, model_name, now) ELSE r

\* ------------------------------------------------------------- chat_stream
\* one line of a streaming body: blank, not JSON, a JSON object (with or
\* without "response"), or JSON that is no object (a number)
Line(t, has_response, response) ==
    [t |-> t, has_response |-> has_response, response |-> response]

LinePool ==
    { Line("blank", FALSE, <<>>),
      Line("invalid", FALSE, <<>>),
      Line("object", TRUE, <<"a">>),
      Line("object", TRUE, <<"b">>),
      Line("object", FALSE, <<>>),
      Line("number", FALSE, <<>>) }

\* closed: the daemon closed the connection after the lines; otherwise the
\* connection broke after them
StreamResponse(status, text, lines, closed) ==
    [kind |-> "resp", status |-> status, text |-> text, lines |-> lines,
     closed |-> closed]

StreamReplies ==
    { Failure(e) : e \in HttpFailures }
    \cup { StreamResponse(s, t, <<>>, TRUE) : s \in Statuses \ {200}, t \in ErrorTexts }
    \cup { StreamResponse(200, <<>>, ls, c) :
             ls \in SeqsUpTo(LinePool, MaxLines), c \in BOOLEAN }

RECURSIVE StreamResume(_, _)
\* The generator body of chat_stream run from line pos + 1 of the response to
\* its next yield, its end or the exception that leaves it:
\* [kind |-> "yield", val, pos], [kind |-> "stop"] or [kind |-> "raise", exc].
StreamResume(reply, pos) ==
    IF pos >= Len(reply.lines)
        THEN IF reply.closed THEN [kind |-> "stop"]
             ELSE [kind |-> "raise", exc |-> Exc("httpx.ReadError", <<"peer reset">>)]
    ELSE LET line == reply.lines[pos + 1]
         IN IF line.t = "blank" THEN StreamResume(reply, pos + 1)
            ELSE IF line.t = "invalid" THEN StreamResume(reply, pos + 1)
            ELSE IF line.t # "object"
                THEN [kind |-> "raise",
                      exc |-> Exc("TypeError", <<"argument of type 'int' is not iterable">>)]
            ELSE IF line.has_response
                THEN [kind |-> "yield", val |-> line.response, pos |-> pos + 1]
            ELSE StreamResume(reply, pos + 1)

\* the generator from the response's arrival to its first suspension
StreamStart(reply, request) ==
    IF reply.kind = "exc" THEN [kind |-> "raise", exc |-> reply.exc]
    ELSE IF reply.status = 404
        THEN [kind |-> "raise",
              exc |-> Exc("ModelNotFoundError",
                          <<"Model '">> \o request.model \o <<"' not found">>)]
    ELSE IF reply.status # 200
        THEN [kind |-> "raise",
              exc |-> Exc("OllamaConnectionError",
                          <<"Stream request failed: HTTP ">> \o IntStr(reply.status)
                              \o <<" - ">> \o reply.text)]
    ELSE StreamResume(reply, 0)

\* the except clause of chat_stream
chat_stream_except(e) ==
    IF IsInstance(e.type, "httpx.RequestError")
        THEN Exc("OllamaConnectionError", <<"Network error: ">> \o e.msg)
    ELSE e

\* contextlib.asynccontextmanager, __aenter__: the generator's first yield is
\* the value bound by `async with ... as`; a generator that ends first is an
\* error
aenter(step) ==
    IF step.kind = "yield" THEN Return(step.val)
    ELSE IF step.kind = "stop"
        THEN Raise(Exc("RuntimeError", <<"generator didn't yield">>))
    ELSE Raise(chat_stream_except(step.exc))

\* contextlib.asynccontextmanager, __aexit__ after a body that ended
\* normally: the generator is resumed once and has to end
aexit(step) ==
    IF step.kind = "stop" THEN Return(None)
    ELSE IF step.kind = "yield"
        THEN Raise(Exc("RuntimeError", <<"generator didn't stop">>))
    ELSE Raise(chat_stream_except(step.exc))

\* ------------------------------------------- dict-returning client (client.py)
\* OllamaClient.__init__: self.host = host.rstrip('/')
RECURSIVE RStripSlash(_)
RStripSlash(s) ==
    IF s # <<>> /\ s[Len(s)] = "/" THEN RStripSlash(SubSeq(s, 1, Len(s) - 1)) ELSE s

DictHostArg == <<"http://localhost:11434", "/">>
DictHost == RStripSlash(DictHostArg)

\* what `import ollama` can end in
ImportOutcomes == {"ok", "ImportError", "Exception"}

\* a client that tries the import again after a failed attempt
dict_ensure_client_Retry(initialized, init_error, import) ==
    IF initialized /\ init_error = None
        THEN [ok |-> TRUE, initialized |-> TRUE, init_error |-> init_error]
    ELSE IF import = "ok"
        THEN [ok |-> TRUE, initialized |-> TRUE, init_error |-> None]
    ELSE IF import = "ImportError"
        THEN [ok |-> FALSE, initialized |-> TRUE,
              init_error |-> Some(<<"ollama package not installed. Run: pip install ollama">>)]
    ELSE [ok |-> FALSE, initialized |-> TRUE,
          init_error |-> Some(<<"Failed to initialize: ">> \o <<"boom">>)]

\* _ensure_client of the dict-returning client on the import's outcome:
\* [ok, initialized, init_error]
dict_ensure_client(initialized, init_error, import) ==
    IF initialized
        THEN [ok |-> init_error = None, initialized |-> TRUE, init_error |-> init_error]
    ELSE IF import = "ok"
        THEN [ok |-> TRUE, initialized |-> TRUE, init_error |-> init_error]
    ELSE IF import = "ImportError"
        THEN [ok |-> FALSE, initialized |-> TRUE,
              init_error |-> Some(<<"ollama package not installed. Run: pip install ollama">>)]
    ELSE [ok |-> FALSE, initialized |-> TRUE,
          init_error |-> Some(<<"Failed to initialize: ">> \o <<"boom">>)]

\* an error response that echoes the host as it was given, slashes and all
_create_health_error_response_RawHost(error, troubleshooting) ==
    [healthy |-> FALSE, error |-> error, host |-> DictHostArg,
     troubleshooting |-> troubleshooting]

_create_health_error_response(error, troubleshooting) ==
    [healthy |-> FALSE, error |-> error, host |-> DictHost,
     troubleshooting |-> troubleshooting]

\* Response.raise_for_status(): HTTPStatusError unless the status is 2xx
raise_for_status(status) ==
    IF 200 <= status /\ status <= 299 THEN NoResult
    ELSE Raise(Exc("httpx.HTTPStatusError", <<"HTTP status ">> \o IntStr(status)))

\* the try block of the dict-returning health_check
dict_health_check_try(reply) ==
    IF reply.kind = "exc" THEN Raise(reply.exc)
    ELSE IF raise_for_status(reply.status).kind = "raise"
        THEN [kind |-> "raise", exc |-> raise_for_status(reply.status).exc,
              status |-> reply.status]
    ELSE IF reply.json.t = "invalid"
        THEN Raise(Exc("json.JSONDecodeError", <<"Expecting value">>))
    ELSE IF reply.json.t # "object"
        THEN Raise(Exc("AttributeError", <<"object has no attribute 'get'">>))
    ELSE IF reply.json.models.t \notin {"missing", "array"}
        THEN Raise(Exc("TypeError", <<"object has no len()">>))
    ELSE Return([healthy |-> TRUE,
                 models_count |-> IF reply.json.models.t = "missing" THEN 0
                                  ELSE Len(reply.json.models.v),
                 host |-> DictHost,
                 message |-> <<"Ollama server is running">>])

\* its except clauses without the last one: any other error leaves
\* health_check
dict_health_check_except_NoCatchAll(r) ==
    IF IsInstance(r.exc.type, "httpx.TimeoutException")
        THEN Return(_create_health_error_response(
                 <<"Connection timeout">>,
                 <<"Check network connection and Ollama status">>))
    ELSE IF IsInstance(r.exc.type, "httpx.HTTPStatusError")
        THEN Return(_create_health_error_response(
                 <<"HTTP error: ">> \o IntStr(r.status),
                 <<"Ollama server responded with error">>))
    ELSE IF IsInstance(r.exc.type, "httpx.ConnectError")
        THEN Return(_create_health_error_response(
                 <<"Connection refused">>,
                 <<"Ollama server is not running. Start with: ollama serve">>))
    ELSE r

\* its except clauses
dict_health_check_except(r) ==
    IF IsInstance(r.exc.type, "httpx.TimeoutException")
        THEN Return(_create_health_error_response(
                 <<"Connection timeout">>,
                 <<"Check network connection and Ollama status">>))
    ELSE IF IsInstance(r.exc.type, "httpx.HTTPStatusError")
        THEN Return(_create_health_error_response(
                 <<"HTTP error: ">> \o IntStr(r.status),
                 <<"Ollama server responded with error">>))
    ELSE IF IsInstance(r.exc.type, "httpx.ConnectError")
        THEN Return(_create_health_error_response(
                 <<"Connection refused">>,
                 <<"Ollama server is not running. Start with: ollama serve">>))
    ELSE IF IsInstance(r.exc.type, "Exception")
        THEN Return(_create_health_error_response(
                 <<"Unexpected error: ">> \o r.exc.msg,
                 <<"Check system logs for details">>))
    ELSE r

\* ------------------------------------------------------------- MCP server
\* the names call_tool sends to the advanced handler
advanced_tool_names ==
    {"suggest_models", "download_model", "check_download_progress", "remove_model",
     "search_available_models", "start_ollama_server", "select_chat_model"}

\* the names a call can carry: the advanced ones, the base ones, and two that
\* no handler knows
ToolNames ==
    advanced_tool_names
    \cup {"list_local_models", "local_llm_chat", "ollama_health_check",
          "system_resource_check"}
    \cup {"unknown_tool", ""}

TextContent(text) == [type |-> "text", text |-> text]

\* how the awaited handler ends: the blocks it returns, or what it raises
HandlerOutcomes ==
    { Return(<<TextContent(<<"{}">>)>>) }
    \cup { Raise(Exc(t, m)) :
             t \in {"Exception", "KeyError", "AttributeError", "OllamaConnectionError"},
             m \in {<<>>, <<"boom">>} }

\* the handler call_tool awaits for a name
Route(name) == IF name \in advanced_tool_names THEN "advanced" ELSE "base"

\* call_tool with no handler of its own for what the routed handler raises
call_tool_except_Reraise(name, e) == Raise(e)

\* the except clause of call_tool
call_tool_except(name, e) ==
    IF IsInstance(e.type, "Exception")
        THEN Return(<<TextContent(<<"Error executing ", name, ": ">> \o e.msg)>>)
    ELSE Raise(e)

\* call_tool, given how the routed handler ended
call_tool(name, outcome) ==
    IF outcome.kind = "raise" THEN call_tool_except(name, outcome.exc) ELSE outcome

\* list_tools, given whether building the tool lists raised
list_tools(raised) ==
    IF raised THEN Return(<<>>)
    ELSE Return(<<"base", "base", "base", "base", "advanced", "advanced", "advanced",
                  "advanced", "advanced", "advanced", "advanced">>)

\* the lines of run() that read the health mapping: a key that is not there
\* is a KeyError, which run() logs and raises again
run_reads_health(health) ==
    IF health.kind = "raise" THEN health
    ELSE IF health.val.healthy
        THEN (IF "models_count" \in DOMAIN health.val THEN NoResult
              ELSE Raise(Exc("KeyError", <<"'models_count'">>)))
    ELSE IF "error" \in DOMAIN health.val THEN NoResult
    ELSE Raise(Exc("KeyError", <<"'error'">>))

\* health_check of the dict-returning client, given what _ensure_client said
dict_health_check(ensured, reply) ==
    IF ~ensured.ok
        THEN Return(_create_health_error_response(
                 <<"Client initialization failed">>, ensured.init_error))
    ELSE LET r == dict_health_check_try(reply)
         IN IF r.kind = "raise" THEN dict_health_check_except(r) ELSE r

\* the replies the dict-returning health_check can get: any status may come
\* with any body
DictHealthReplies ==
    { Failure(e) : e \in HttpFailures \cup PoolFailures }
    \cup { Response(s, <<>>, j) :
             s \in Statuses,
             j \in { TagsJson("invalid", Fld("missing", <<>>)),
                     TagsJson("array", Fld("missing", <<>>)),
                     TagsJson("object", Fld("missing", <<>>)),
                     TagsJson("object", Fld("null", <<>>)),
                     TagsJson("object", Fld("array", <<>>)),
                     TagsJson("object", Fld("array", <<GoodEntry>>)) } }

\* ------------------------------------------------------------ ChatRequest
\* a float: so many tenths, or not a number
Float(tenths) == [nan |-> FALSE, tenths |-> tenths]
NaN == [nan |-> TRUE, tenths |-> 0]

\* 0.0 <= v <= 2.0 (every comparison with nan is false)
Between0And2(v) == ~v.nan /\ 0 <= v.tenths /\ v.tenths <= 20

\* a validator that lets every temperature through
validate_temperature_Unchecked(v) == Ok(v)

\* ChatRequest.validate_temperature
validate_temperature(v) ==
    IF ~Between0And2(v)
        THEN Err("ValueError", <<"Temperature must be between 0.0 and 2.0">>)
    ELSE Ok(v)

\* ChatRequest.validate_message
validate_message(v) ==
    IF v = <<>> \/ Strip(v) = <<>>
        THEN Err("ValueError", <<"Message cannot be empty">>)
    ELSE Ok(Strip(v))

\* ChatRequest.validate_max_tokens
validate_max_tokens(v) ==
    IF v # None /\ v[1] <= 0
        THEN Err("ValueError", <<"max_tokens must be positive">>)
    ELSE Ok(v)

\* ChatRequest(model=..., message=..., temperature=..., max_tokens=...):
\* pydantic runs every field's validator and raises one ValidationError
\* that names the fields that failed, in the order of the fields
new_ChatRequest(model, message, temperature, max_tokens) ==
    LET m == validate_message(message)
        t == validate_temperature(temperature)
        k == validate_max_tokens(max_tokens)
        errors == (IF m.ok THEN <<>> ELSE <<"message">>)
                  \o (IF t.ok THEN <<>> ELSE <<"temperature">>)
                  \o (IF k.ok THEN <<>> ELSE <<"max_tokens">>)
    IN IF errors # <<>> THEN Raise(Exc("pydantic.ValidationError", errors))
       ELSE Return([model |-> model, message |-> m.val, temperature |-> t.val,
                    max_tokens |-> k.val, stream |-> FALSE])

\* the temperatures examined, around both ends of the range
Temperatures == {Float(k) : k \in {-10, -1, 0, 7, 20, 21, 30}} \cup {NaN}

\* the payload chat (stream as asked) and chat_stream (stream = True) post
GeneratePayload(o, request) ==
    [model |-> request.model, prompt |-> request.message,
     stream |-> IF o = "chat_stream" THEN TRUE ELSE request.stream,
     options |-> [temperature |-> request.temperature,
                  num_predict |-> IF request.max_tokens # None /\ request.max_tokens[1] # 0
                                      THEN request.max_tokens ELSE None]]

\* ------------------------------------------------- ModelInfo (core/models)
\* the characters a name is made of here: two of the class, a blank, a
\* newline and one that is neither
CharPool == {"m", "-", " ", "\n", "/"}

\* ModelInfo(name=..., ...) of core/models.py with its other fields in order
new_ModelInfo(name) ==
    IF validate_model_name(name).ok
        THEN Return([name |-> validate_model_name(name).name])
    ELSE Raise(Exc("pydantic.ValidationError", <<"name">>))

\* ----------------------------------------------------- tokens per second
\* a / b of two numbers, kept as the pair
Quotient(a, b) == [num |-> a, den |-> b]

\* a ChatResponse that reports no rate at all
tokens_per_second_Never(r) == None

\* ChatResponse.tokens_per_second
tokens_per_second(r) ==
    IF r.eval_count = None \/ r.eval_duration_ms = None THEN None
    ELSE IF r.eval_duration_ms[1] = DivMillion(0) THEN None
    ELSE Some(Quotient(r.eval_count[1] * 1000, r.eval_duration_ms[1]))

\* generate bodies that differ in their counts and durations
RateBodies ==
    { [GoodGen EXCEPT !.eval_count = c, !.eval_duration = d,
                      !.total_duration = t, !.load_duration = l] :
        c \in {Fld("missing", 0), Fld("null", 0), Fld("int", 0), Fld("int", 10)},
        d \in {Fld("missing", 0), Fld("null", 0), Fld("int", 0), Fld("int", 1500000),
               Fld("int", 2000000000)},
        t \in {Fld("missing", 0), Fld("int", 5000000), Fld("int", 1)},
        l \in {Fld("missing", 0), Fld("int", 1000000)} }

\* ------------------------------------------------------ human-readable sizes
RECURSIVE Pow1024(_)
Pow1024(k) == IF k = 0 THEN 1 ELSE 1024 * Pow1024(k - 1)

\* the number m * 1024^e, e of either sign: a size and what repeated
\* division by 1024.0 makes of it. Dividing by a power of two is exact in
\* floating point, so no precision is lost; mantissas stay below 1024^2 + 1024
Num(m, e) == [m |-> m, e |-> e]

\* v < 1024.0
Below1024(v) ==
    IF v.m = 0 THEN TRUE
    ELSE IF v.e >= 1 THEN FALSE
    ELSE IF v.e >= -1 THEN v.m < 1024 * Pow1024(-v.e)
    ELSE TRUE

\* v /= 1024.0
Div1024(v) == IF v.m = 0 THEN v ELSE Num(v.m, v.e - 1)

\* the tenths that :.1f shows: 10 v rounded to the nearest integer, a tie
\* going to the even one
Tenths(v) ==
    IF v.e >= 0 THEN v.m * Pow1024(v.e) * 10
    ELSE LET den == Pow1024(-v.e)
             q == (v.m * 10) \div den
             r == (v.m * 10) % den
         IN IF 2 * r < den THEN q
            ELSE IF 2 * r > den THEN q + 1
            ELSE IF q % 2 = 0 THEN q ELSE q + 1

\* f"{v:.1f}"
FormatF1(v) == IntStr(Tenths(v) \div 10) \o <<".", Digit[(Tenths(v) % 10) + 1]>>

Units == <<"B", "KB", "MB", "GB", "TB">>

RECURSIVE size_human_from(_, _)
\* the loop of ModelInfo.size_human (dataclass) from its i-th unit on
size_human_from(size, i) ==
    IF i > Len(Units) THEN FormatF1(size) \o <<" ", "PB">>
    ELSE IF Below1024(size) THEN FormatF1(size) \o <<" ", Units[i]>>
    ELSE size_human_from(Div1024(size), i + 1)

\* ModelInfo.size_human of the dataclass: works on a local copy of the size
size_human(size) == size_human_from(size, 1)

RECURSIVE human_readable_from(_, _)
\* the loop of ModelSize.human_readable from its i-th unit on: it divides
\* self.bytes itself, and writes the unit straight after the number
human_readable_from(bytes, i) ==
    IF i > Len(Units) THEN [text |-> FormatF1(bytes) \o <<"PB">>, bytes |-> bytes]
    ELSE IF Below1024(bytes) THEN [text |-> FormatF1(bytes) \o <<Units[i]>>, bytes |-> bytes]
    ELSE human_readable_from(Div1024(bytes), i + 1)

\* ModelSize.human_readable: the text, and self.bytes as the read leaves it
human_readable(bytes) == human_readable_from(bytes, 1)

\* the sizes examined: 0, and m * 1024^e around every unit's boundary (just
\* below it, on it, a tie of the rounding, beyond the last unit)
Sizes ==
    {Num(0, 0)}
    \cup {Num(m, e) : m \in {1, 512, 1023, 1280, 1536, 1048575}, e \in 0..5}
    \cup {Num(m, 6) : m \in {1, 1023, 1536}}

\* -------------------- dict-returning client: executor-delegated operations
ExecOps == {"list_models", "chat", "pull_model", "remove_model"}

\* the timeout= of each asyncio.wait_for, in seconds
Deadline(o) ==
    CASE o = "list_models" -> 10
      [] o = "chat" -> 120
      [] o = "pull_model" -> 1800
      [] o = "remove_model" -> 30

\* how long the blocking call in the executor takes, in seconds
Durations == {1, 60, 600, 7200}

\* what ollama.list() hands back, entry by entry: a dict, a model object
\* (attribute access and .get), or something with neither
RawPool ==
    { [t |-> "dict", name |-> Some(M1)], [t |-> "dict", name |-> None],
      [t |-> "model", name |-> Some(M2)], [t |-> "plain", name |-> None] }

\* how the blocking call ends when it is left to end: a value (a list, a
\* mapping, or an object that is neither, such as None), or the Exception
\* its _sync_ wrapper raises
ExecOutcomes(o) ==
    { [kind |-> "exc",
       exc |-> Exc("Exception",
                   (CASE o = "list_models" -> <<"Failed to list models: ">>
                      [] o = "chat" -> <<"Failed to chat: ">>
                      [] o = "pull_model" -> <<"Failed to pull model: ">>
                      [] o = "remove_model" -> <<"Failed to remove model: ">>)
                   \o <<"connection refused">>)] }
    \cup (IF o = "list_models"
             THEN { [kind |-> "value", shape |-> "list", val |-> raw] :
                      raw \in SeqsUpTo(RawPool, MaxEntries) }
                  \cup { [kind |-> "value", shape |-> "none", val |-> <<>>] }
           ELSE IF o = "chat"
             THEN { [kind |-> "value", shape |-> "dict", val |-> <<"hello">>],
                    [kind |-> "value", shape |-> "dict", val |-> <<>>],
                    [kind |-> "value", shape |-> "none", val |-> <<>>] }
           ELSE { [kind |-> "value", shape |-> "dict", val |-> <<>>] })

\* asyncio.wait_for gave up: the deadline passed before the call ended
DeadlinePassed == [kind |-> "exc", exc |-> Exc("asyncio.TimeoutError", <<>>)]

RECURSIVE dict_parse_models(_)
\* the loop of list_models over raw_models (of a ModelInfo only the name is
\* kept here); an entry without .get raises and is skipped
dict_parse_models(raw) ==
    IF raw = <<>> THEN <<>>
    ELSE LET e == Head(raw)
             rest == dict_parse_models(Tail(raw))
         IN IF e.t = "plain" THEN rest
            ELSE IF e.name = None THEN <<[name |-> <<"unknown">>]>> \o rest
            ELSE <<[name |-> e.name[1]]>> \o rest

\* the try block of an executor-delegated operation
dict_exec_try(o, arg, outcome) ==
    IF outcome.kind = "exc" THEN Raise(outcome.exc)
    ELSE CASE o = "list_models" ->
                IF outcome.shape # "list"
                    THEN Raise(Exc("TypeError", <<"object is not iterable">>))
                ELSE Return([success |-> TRUE,
                             models |-> dict_parse_models(outcome.val),
                             count |-> Len(dict_parse_models(outcome.val))])
           [] o = "chat" ->
                IF outcome.shape # "dict"
                    THEN Raise(Exc("AttributeError", <<"object has no attribute 'get'">>))
                ELSE Return([success |-> TRUE, response |-> outcome.val, model |-> arg])
           [] o = "pull_model" ->
                Return([success |-> TRUE,
                        message |-> <<"Model ">> \o arg \o <<" downloaded successfully">>,
                        model_name |-> arg])
           [] o = "remove_model" ->
                Return([success |-> TRUE,
                        message |-> <<"Model ">> \o arg \o <<" removed successfully">>,
                        model_name |-> arg])

\* a failure dict of operation o
dict_failure(o, arg, error) ==
    CASE o = "list_models" -> [success |-> FALSE, error |-> error, models |-> <<>>]
      [] o = "chat" -> [success |-> FALSE, error |-> error, response |-> <<>>]
      [] o \in {"pull_model", "remove_model"} ->
            [success |-> FALSE, error |-> error, model_name |-> arg]

\* the except clauses with `except Exception` alone: a timeout is reported
\* with str(e), which is empty for asyncio.TimeoutError
dict_exec_except_NoTimeoutClause(o, arg, e) ==
    Return(dict_failure(o, arg, e.msg))

\* the except clauses with `except asyncio.TimeoutError` alone: any other
\* error leaves the operation
dict_exec_except_NoCatchAll(o, arg, e) ==
    IF IsInstance(e.type, "asyncio.TimeoutError")
        THEN Return(dict_failure(o, arg, <<"timeout">>))
    ELSE Raise(e)

\* the except clauses of an executor-delegated operation
dict_exec_except(o, arg, e) ==
    IF IsInstance(e.type, "asyncio.TimeoutError")
        THEN Return(dict_failure(o, arg,
                 CASE o = "list_models" -> <<"Timeout", " listing models">>
                   [] o = "chat" -> <<"Chat ", "timeout", " - model may be loading">>
                   [] o = "pull_model" ->
                        <<"Download ", "timeout", " - model may be very large">>
                   [] o = "remove_model" -> <<"Remove ", "timeout">>))
    ELSE IF IsInstance(e.type, "Exception")
        THEN Return(dict_failure(o, arg, e.msg))
    ELSE Raise(e)

\* an executor-delegated operation once _ensure_client said yes
dict_exec(o, arg, outcome) ==
    LET r == dict_exec_try(o, arg, outcome)
    IN IF r.kind = "raise" THEN dict_exec_except(o, arg, r.exc) ELSE r

\* ... and when it said no (list_models and chat add their empty value)
dict_exec_refused(o, arg, init_error) ==
    CASE o = "list_models" -> [success |-> FALSE, error |-> init_error, models |-> <<>>]
      [] o = "chat" -> [success |-> FALSE, error |-> init_error, response |-> <<>>]
      [] o \in {"pull_model", "remove_model"} ->
            [success |-> FALSE, error |-> init_error]

\* ------------------------------------------------------------------ state
VARIABLES
    allowed_models,   \* Settings.allowed_models
    blocked_models,   \* Settings.blocked_models
    http_client,      \* OllamaClient._http_client: "None", "open" or "closed"
    initialized,      \* dict-returning client: _initialized
    init_error,       \* dict-returning client: _init_error
    op,               \* the operation the caller is in
    pc,               \* where that operation stands
    request,          \* its ChatRequest argument
    model_name,       \* its model name argument
    ensured,          \* whether it has called _ensure_client
    net,              \* the requests it has sent to the daemon
    reply,            \* what came back from the daemon
    job_id,           \* pull_model's local, made before the request is awaited
    pos,              \* chat_stream: the lines its generator has consumed
    received,         \* what the consumer of chat_stream has been handed
    result,           \* how it ended: a returned value or a raised exception
    \* several pull_model calls on one client, and the clock they read
    clock,            \* int(time.time())
    pullers,          \* the pull_model calls in progress: where each stands
    jobs,             \* the job ids of the DownloadProgress values returned so far
    \* several coroutines on one pooled client: its pool and its lock
    pool,             \* OllamaClient._http_client: NoPool or the pool it refers to
    pools,            \* every httpx.AsyncClient constructed so far: "open" or "closed"
    lock,             \* OllamaClient._client_lock: NoTask or the coroutine holding it
    tasks,            \* the coroutines: where each stands and the pool it was handed
    \* the executor-delegated operations of the dict-returning client
    dcall,            \* the operation in progress, its blocking call and its result
    abandoned,        \* blocking calls still running whose operation gave up on them
    \* the value objects, one under examination at a time
    sized,            \* a ModelInfo (dataclass) or ModelSize and the last size text read
    built,            \* the last ChatRequest(...) call: its arguments and how it ended
    posted,           \* the payloads chat and chat_stream posted for built requests
    descr,            \* the last ModelInfo(name=...) call of core/models.py
    rated,            \* the last generate body, its ChatResponse and tokens_per_second
    asked,            \* the last is_model_allowed call: the lists, the name, the answer
    \* the MCP server
    srv               \* OllamaMCPServer: where it stands and its last answers

pull_vars == <<clock, pullers, jobs>>
pool_vars == <<pool, pools, lock, tasks>>
exec_vars == <<dcall, abandoned>>
value_vars == <<sized, built, posted, descr, rated, asked>>
server_vars == <<srv>>

\* the state of the other specifications, which the single caller leaves alone
aux == <<pull_vars, pool_vars, exec_vars, value_vars, server_vars>>

vars ==
    <<allowed_models, blocked_models, http_client, initialized, init_error, op, pc,
      request, model_name, ensured, net, reply, job_id, pos, received, result, aux>>

\* the state of the single caller of the pooled client
pooled_vars ==
    <<http_client, op, pc, request, model_name, ensured, net, reply, job_id, pos,
      received, result>>

\* the state of the single caller
caller_vars == <<pooled_vars, initialized, init_error>>

settings == <<allowed_models, blocked_models>>
dict_client == <<initialized, init_error>>

NoReply == [kind |-> "none"]

\* the operation takes no ChatRequest
NoRequest ==
    [model |-> <<>>, message |-> <<>>, temperature |-> <<>>, max_tokens |-> None,
     stream |-> FALSE]

\* the callers of pull_model
Pullers == 1..NumPullers

IdlePuller == [pc |-> "idle", model_name |-> <<>>, job_id |-> <<>>]

\* no executor-delegated operation has been called
NoCall ==
    [op |-> "none", pc |-> "idle", arg |-> <<>>, duration |-> 0, how |-> "none",
     result |-> NoResult]

\* no OllamaMCPServer has been constructed
NoServer ==
    [pc |-> "none", client |-> FALSE, handlers |-> FALSE, sent |-> 0,
     health |-> NoResult, tools |-> NoResult, name |-> "", routed |-> "none",
     handler |-> NoResult, answer |-> NoResult, failures |-> 0]

\* no ChatRequest has been asked for
NoBuilt ==
    [message |-> <<>>, temperature |-> Float(0), max_tokens |-> None,
     result |-> NoResult]

\* the pieces a list setting is written with: a name, the same name after a
\* blank, another name, nothing
ListItems == {M1, BLANK \o M1, GHOST, EMPTY}

\* the values a list setting is given
RawLists ==
    {None}
    \cup {StrList(<<a>>) : a \in ListItems}
    \cup {StrList(<<a, b>>) : a \in ListItems, b \in ListItems}

\* the names asked about: a listed name, its first character, the name after
\* a blank, another listed name
PolicyNames == {M1, <<"m">>, BLANK \o M1, GHOST}

\* no name has been asked about
NoAsked == [pc |-> "none", allowed |-> None, blocked |-> None, name |-> EMPTY,
            answer |-> FALSE]

\* no sized object has been built
NoSized == [cls |-> "none", size |-> Num(0, 0), bytes |-> Num(0, 0), reads |-> 0,
            text |-> <<>>]

\* the coroutines that use one pooled client
Tasks == 1..NumTasks

\* self._http_client = None; pools are numbered in the order of construction
NoPool == 0

\* the lock is free
NoTask == 0

\* kind: "op" (an operation), "close" (close()) or "scoped" (async with
\* client); got: what _ensure_client returned to it; how: how the body of the
\* async with ended
IdleTask == [pc |-> "idle", kind |-> "none", got |-> NoPool, how |-> "none"]

Init ==
    /\ allowed_models \in AllowedLists
    /\ blocked_models \in BlockedLists
    /\ http_client = "None"
    /\ initialized = FALSE
    /\ init_error = None
    /\ op = "none"
    /\ pc = "idle"
    /\ request = NoRequest
    /\ model_name = <<>>
    /\ ensured = FALSE
    /\ net = <<>>
    /\ reply = NoReply
    /\ job_id = <<>>
    /\ pos = 0
    /\ received = <<>>
    /\ result = NoResult
    /\ clock = 0
    /\ pullers = [t \in Pullers |-> IdlePuller]
    /\ jobs = <<>>
    /\ pool = NoPool
    /\ pools = <<>>
    /\ lock = NoTask
    /\ tasks = [t \in Tasks |-> IdleTask]
    /\ dcall = NoCall
    /\ abandoned = 0
    /\ sized = NoSized
    /\ built = NoBuilt
    /\ srv = NoServer
    /\ posted = <<>>
    /\ descr = [name |-> <<>>, result |-> NoResult]
    /\ rated = [body |-> GoodGen, result |-> NoResult, tokens_per_second |-> None]
    /\ asked = NoAsked

\* the caller starts operation o with ChatRequest req and model name n
Begin(o, req, n) ==
    /\ pc \in {"idle", "done"}
    /\ op' = o
    /\ request' = req
    /\ model_name' = n
    /\ ensured' = FALSE
    /\ net' = <<>>
    /\ reply' = NoReply
    /\ job_id' = <<>>
    /\ pos' = 0
    /\ received' = <<>>

\* ... and is at its `client = await self._ensure_client()`
BeginPooled(o, req, n) ==
    /\ Begin(o, req, n)
    /\ pc' = "ensure"
    /\ result' = NoResult
    /\ UNCHANGED <<settings, http_client, dict_client>>

\* the operation ends before it reaches _ensure_client
EndEarly(o, req, n, r) ==
    /\ Begin(o, req, n)
    /\ pc' = "done"
    /\ result' = r
    /\ UNCHANGED <<settings, http_client, dict_client>>

Call_health_check ==
    /\ op' = "health_check"
    /\ BeginPooled("health_check", NoRequest, <<>>)
    /\ UNCHANGED aux

Call_list_models ==
    /\ op' = "list_models"
    /\ BeginPooled("list_models", NoRequest, <<>>)
    /\ UNCHANGED aux

Call_get_model_info ==
    /\ op' = "get_model_info"
    /\ \E n \in {M1, M2, GHOST} : BeginPooled("get_model_info", NoRequest, n)
    /\ UNCHANGED aux

Call_chat ==
    /\ \E m \in ArgNames :
          LET req == ChatRequest(m)
              v == chat_validate(allowed_models, blocked_models, req)
          IN IF v.kind = "raise" THEN EndEarly("chat", req, <<>>, v)
             ELSE BeginPooled("chat", req, <<>>)
    /\ UNCHANGED aux

\* entering `async with client.chat_stream(request)`: the generator starts
\* and sets request.stream
Call_chat_stream ==
    /\ op' = "chat_stream"
    /\ \E m \in ArgNames :
          BeginPooled("chat_stream", [ChatRequest(m) EXCEPT !.stream = TRUE], <<>>)
    /\ UNCHANGED aux

Call_pull_model ==
    /\ \E n \in ArgNames :
          LET v == pull_model_validate(allowed_models, blocked_models, n)
          IN IF v.kind = "raise" THEN EndEarly("pull_model", NoRequest, n, v)
             ELSE BeginPooled("pull_model", NoRequest, n)
    /\ UNCHANGED aux

Call_delete_model ==
    /\ op' = "delete_model"
    /\ \E n \in {M1, GHOST} : BeginPooled("delete_model", NoRequest, n)
    /\ UNCHANGED aux

Call_show_model_info ==
    /\ op' = "show_model_info"
    /\ \E n \in {M1, GHOST} : BeginPooled("show_model_info", NoRequest, n)
    /\ UNCHANGED aux

\* How the operation in progress ends once its awaits have produced `rep`
\* (the daemon's reply, or the exception one of the awaits raised); t0 <= t1
\* are the clock readings it takes.
Finish(rep, t0, t1) ==
    CASE op = "health_check" -> health_check(rep, t1 - t0)
      [] op = "list_models" -> list_models(rep)
      [] op = "get_model_info" -> get_model_info(rep, model_name)
      [] op = "chat" -> chat(rep, request)
      [] op = "chat_stream" -> aenter(StreamStart(rep, request))
      [] op = "pull_model" -> pull_model(rep, model_name, job_id, t1)
      [] op = "delete_model" -> delete_model(rep, model_name)
      [] op = "show_model_info" -> show_model_info(rep, model_name)

Times == { tt \in (0..MaxTime) \X (0..MaxTime) : tt[1] <= tt[2] }

\* OllamaClient._ensure_client with one caller: the pool is made when there
\* is none or it is closed, and making it can raise
EnsureClient ==
    /\ pc = "ensure"
    /\ ensured' = TRUE
    /\ \/ /\ http_client = "open"
          /\ pc' = "send"
          /\ UNCHANGED <<http_client, reply, result>>
       \/ /\ http_client # "open"
          /\ http_client' = "open"
          /\ pc' = "send"
          /\ UNCHANGED <<reply, result>>
       \/ /\ http_client # "open"
          /\ \E e \in PoolFailures, tt \in Times :
                /\ reply' = Failure(e)
                /\ result' = Finish(Failure(e), tt[1], tt[2])
          /\ pc' = "done"
          /\ UNCHANGED http_client
    /\ UNCHANGED <<settings, dict_client, op, request, model_name, net, job_id, pos,
                   received>>
    /\ UNCHANGED aux

\* the request each operation sends
RequestOf(o, req, n) ==
    CASE o \in {"health_check", "list_models", "get_model_info"} ->
            [method |-> "GET", path |-> "/api/tags", name |-> <<>>, stream |-> FALSE]
      [] o = "chat" ->
            [method |-> "POST", path |-> "/api/generate", name |-> req.model,
             stream |-> req.stream]
      [] o = "chat_stream" ->
            [method |-> "POST", path |-> "/api/generate", name |-> req.model,
             stream |-> TRUE]
      [] o = "pull_model" ->
            [method |-> "POST", path |-> "/api/pull", name |-> n, stream |-> FALSE]
      [] o = "show_model_info" ->
            [method |-> "POST", path |-> "/api/show", name |-> n, stream |-> FALSE]

\* the operation issues its request on the pool (pull_model makes its job
\* id first)
SendRequest ==
    /\ pc = "send"
    /\ op # "delete_model"
    /\ net' = Append(net, RequestOf(op, request, model_name))
    /\ IF op = "pull_model"
          THEN \E t \in 0..MaxTime : job_id' = JobId(model_name, t)
          ELSE UNCHANGED job_id
    /\ pc' = "wait"
    /\ UNCHANGED <<settings, http_client, dict_client, op, request, model_name, ensured,
                   reply, pos, received, result>>
    /\ UNCHANGED aux

\* delete_model's call of client.delete raises in the caller: nothing is
\* sent and the handlers of delete_model turn the TypeError into its result
Send_delete_model ==
    /\ pc = "send"
    /\ op = "delete_model"
    /\ reply' = Failure(DeleteKwargError)
    /\ result' = delete_model(Failure(DeleteKwargError), model_name)
    /\ pc' = "done"
    /\ UNCHANGED <<settings, http_client, dict_client, op, request, model_name, ensured,
                   net, job_id, pos, received>>
    /\ UNCHANGED aux

\* the await of the request ends with `rep`
Receive(o, replies) ==
    /\ pc = "wait"
    /\ op = o
    /\ \E rep \in replies, tt \in Times :
          /\ reply' = rep
          /\ result' = Finish(rep, tt[1], tt[2])
    /\ pc' = "done"
    /\ UNCHANGED <<settings, http_client, dict_client, op, request, model_name, ensured,
                   net, job_id, pos, received>>

Recv_health_check ==
    /\ op = "health_check"
    /\ Receive("health_check", TagsReplies)
    /\ UNCHANGED aux

Recv_list_models ==
    /\ op = "list_models"
    /\ Receive("list_models", TagsReplies)
    /\ UNCHANGED aux

Recv_get_model_info ==
    /\ op = "get_model_info"
    /\ Receive("get_model_info", TagsReplies)
    /\ UNCHANGED aux

Recv_chat ==
    /\ op = "chat"
    /\ Receive("chat", GenerateReplies)
    /\ UNCHANGED aux

Recv_pull_model ==
    /\ op = "pull_model"
    /\ Receive("pull_model", PlainReplies)
    /\ UNCHANGED aux

Recv_show_model_info ==
    /\ op = "show_model_info"
    /\ Receive("show_model_info", ShowReplies)
    /\ UNCHANGED aux


\* __aenter__ of chat_stream's context manager: the response arrives and the
\* generator runs to its first yield, which the consumer is handed
Recv_chat_stream ==
    /\ pc = "wait"
    /\ op = "chat_stream"
    /\ \E rep \in StreamReplies :
          LET step == StreamStart(rep, request)
          IN /\ reply' = rep
             /\ IF step.kind = "yield"
                   THEN /\ received' = Append(received, aenter(step).val)
                        /\ pos' = step.pos
                        /\ pc' = "body"
                        /\ result' = NoResult
                   ELSE /\ result' = aenter(step)
                        /\ pc' = "done"
                        /\ UNCHANGED <<received, pos>>
    /\ UNCHANGED <<settings, http_client, dict_client, op, request, model_name, ensured,
                   net, job_id>>
    /\ UNCHANGED aux

\* __aexit__ after the consumer's block: the generator is resumed
Exit_chat_stream ==
    /\ pc = "body"
    /\ result' = aexit(StreamResume(reply, pos))
    /\ pc' = "done"
    /\ UNCHANGED <<settings, http_client, dict_client, op, request, model_name, ensured,
                   net, reply, job_id, pos, received>>
    /\ UNCHANGED aux

\* close(): a no-op without an open pool; otherwise aclose() is awaited ...
Call_close ==
    /\ Begin("close", NoRequest, <<>>)
    /\ IF http_client = "open"
          THEN /\ http_client' = "closed"
               /\ pc' = "closing"
               /\ result' = NoResult
          ELSE /\ pc' = "done"
               /\ result' = Return(None)
               /\ UNCHANGED http_client
    /\ UNCHANGED <<settings, dict_client>>
    /\ UNCHANGED aux

\* ... and then the reference is dropped
Close_done ==
    /\ pc = "closing"
    /\ http_client' = "None"
    /\ pc' = "done"
    /\ result' = Return(None)
    /\ UNCHANGED <<settings, dict_client, op, request, model_name, ensured, net, reply,
                   job_id, pos, received>>
    /\ UNCHANGED aux

\* health_check of the dict-returning client, whole: _ensure_client, then a
\* fresh httpx.AsyncClient, GET {host}/api/tags, raise_for_status, json
Dict_health_check ==
    /\ pc \in {"idle", "done"}
    /\ op' = "dict_health_check"
    /\ request' = NoRequest
    /\ model_name' = <<>>
    /\ ensured' = FALSE
    /\ job_id' = <<>>
    /\ pos' = 0
    /\ received' = <<>>
    /\ \E import \in ImportOutcomes, rep \in DictHealthReplies :
          LET e == dict_ensure_client(initialized, init_error, import)
          IN /\ initialized' = e.initialized
             /\ init_error' = e.init_error
             /\ reply' = IF e.ok THEN rep ELSE NoReply
             /\ net' = IF e.ok /\ ~(rep.kind = "exc" /\ rep.exc \in PoolFailures)
                          THEN <<[method |-> "GET", path |-> "/api/tags",
                                  name |-> <<>>, stream |-> FALSE]>>
                          ELSE <<>>
             /\ result' = dict_health_check(e, rep)
    /\ pc' = "done"
    /\ UNCHANGED <<settings, http_client>>
    /\ UNCHANGED aux

Next ==
    \/ Call_health_check
    \/ Call_list_models
    \/ Call_get_model_info
    \/ Call_chat
    \/ Call_chat_stream
    \/ Call_pull_model
    \/ Call_delete_model
    \/ Call_show_model_info
    \/ Call_close
    \/ EnsureClient
    \/ SendRequest
    \/ Recv_health_check
    \/ Recv_list_models
    \/ Recv_get_model_info
    \/ Recv_chat
    \/ Recv_chat_stream
    \/ Exit_chat_stream
    \/ Recv_pull_model
    \/ Send_delete_model
    \/ Recv_show_model_info
    \/ Close_done
    \/ Dict_health_check

Spec == Init /\ [][Next]_vars

\* ------------------------------------------- several pulls on one client
\* the names pulled: M2 and M2Dash differ and are both valid model names
M2Dash == <<"m", "-", "2">>

PullNames == {M1, M2, M2Dash}

\* pull_model up to its `await client.post`: the validation passes, the pool
\* is there, the job id is made from the clock and the request goes out
Pull_call(t) ==
    /\ pullers[t].pc = "idle"
    /\ Len(jobs) < MaxPulls
    /\ \E n \in PullNames :
          /\ pull_model_validate(allowed_models, blocked_models, n) = NoResult
          /\ pullers' = [pullers EXCEPT
                 ![t] = [pc |-> "wait", model_name |-> n, job_id |-> JobId(n, clock)]]
    /\ UNCHANGED <<settings, server_vars, caller_vars, pool_vars, exec_vars, value_vars, clock, jobs>>

\* pull_model from the end of its await: the DownloadProgress it returns
Pull_return(t) ==
    /\ pullers[t].pc = "wait"
    /\ \E rep \in PlainReplies :
          LET r == pull_model(rep, pullers[t].model_name, pullers[t].job_id, clock)
          IN /\ r.kind = "return"
             /\ jobs' = Append(jobs, r.val.job_id)
    /\ pullers' = [pullers EXCEPT ![t] = IdlePuller]
    /\ UNCHANGED <<settings, server_vars, caller_vars, pool_vars, exec_vars, value_vars, clock>>

\* a second passes
Tick ==
    /\ clock < MaxClock
    /\ clock' = clock + 1
    /\ UNCHANGED <<settings, server_vars, caller_vars, pool_vars, exec_vars, value_vars, pullers, jobs>>

NextPull ==
    \/ \E t \in Pullers : Pull_call(t)
    \/ \E t \in Pullers : Pull_return(t)
    \/ Tick

SpecPull == Init /\ [][NextPull]_vars

\* ---------------------------------------- coroutines on one pooled client
\* `self._http_client is None or self._http_client.is_closed`, always true:
\* a check that would make every caller construct
NeedsPoolLocked_Always(p, ps) == TRUE

\* `self._http_client is None or self._http_client.is_closed`
NeedsPool(p, ps) == p = NoPool \/ ps[p] = "closed"

\* the same test, made again once the lock is held
NeedsPoolLocked(p, ps) == NeedsPool(p, ps)

\* close()'s test with its `not` lost
CloseNeeded_Inverted(p, ps) == p # NoPool /\ ps[p] = "closed"

\* `self._http_client and not self._http_client.is_closed`
CloseNeeded(p, ps) == p # NoPool /\ ps[p] = "open"

\* a coroutine may start something when it is in nothing
Startable(t) == tasks[t].pc \in {"idle", "failed", "closed"}

\* A coroutine calls an operation, or enters `async with client`: both start
\* with _ensure_client, whose first test is made without the lock. With a
\* usable pool it returns it at once; otherwise it goes for the lock.
Ensure_check(t) ==
    /\ Startable(t)
    /\ \E k \in {"op", "scoped"} :
          tasks' = [tasks EXCEPT ![t] =
             IF NeedsPool(pool, pools)
                 THEN [pc |-> "acquire", kind |-> k, got |-> NoPool, how |-> "none"]
                 ELSE [pc |-> "has", kind |-> k, got |-> pool, how |-> "none"]]
    /\ UNCHANGED <<settings, server_vars, caller_vars, pull_vars, exec_vars, value_vars, pool, pools, lock>>

\* `async with self._client_lock`: it gets the lock when no one holds it
Ensure_acquire(t) ==
    /\ tasks[t].pc = "acquire"
    /\ lock = NoTask
    /\ lock' = t
    /\ tasks' = [tasks EXCEPT ![t].pc = "locked"]
    /\ UNCHANGED <<settings, server_vars, caller_vars, pull_vars, exec_vars, value_vars, pool, pools>>

\* Under the lock: the test again, the construction when it is still needed
\* (which can raise), the release of the lock, and the return of the pool.
Ensure_create(t) ==
    /\ tasks[t].pc = "locked"
    /\ lock = t
    /\ lock' = NoTask
    /\ IF NeedsPoolLocked(pool, pools)
          THEN \/ /\ Len(pools) < MaxPools
                  /\ pools' = Append(pools, "open")
                  /\ pool' = Len(pools) + 1
                  /\ tasks' = [tasks EXCEPT ![t].pc = "has", ![t].got = Len(pools) + 1]
               \/ /\ PoolFailures # {}
                  /\ tasks' = [tasks EXCEPT ![t].pc = "failed"]
                  /\ UNCHANGED <<pool, pools>>
          ELSE /\ tasks' = [tasks EXCEPT ![t].pc = "has", ![t].got = pool]
               /\ UNCHANGED <<pool, pools>>
    /\ UNCHANGED <<settings, server_vars, caller_vars, pull_vars, exec_vars, value_vars>>

\* an operation is over: its request on the pool it was handed has ended
Op_end(t) ==
    /\ tasks[t].pc = "has"
    /\ tasks[t].kind = "op"
    /\ tasks' = [tasks EXCEPT ![t] = IdleTask]
    /\ UNCHANGED <<settings, server_vars, caller_vars, pull_vars, exec_vars, value_vars, pool, pools, lock>>

\* close() up to its await: without an open pool it returns at once;
\* otherwise aclose() starts, and the pool is closed from then on
CloseBegin(t, k, g, h) ==
    IF CloseNeeded(pool, pools)
        THEN /\ pools' = [pools EXCEPT ![pool] = "closed"]
             /\ tasks' = [tasks EXCEPT ![t] =
                    [pc |-> "closing", kind |-> k, got |-> g, how |-> h]]
        ELSE /\ tasks' = [tasks EXCEPT ![t] =
                    [pc |-> "closed", kind |-> k, got |-> g, how |-> h]]
             /\ UNCHANGED pools

\* a coroutine calls close()
Close_call(t) ==
    /\ Startable(t)
    /\ CloseBegin(t, "close", NoPool, "none")
    /\ UNCHANGED <<settings, server_vars, caller_vars, pull_vars, exec_vars, value_vars, pool, lock>>

\* the body of `async with client` ends, normally or by raising, and
\* __aexit__ calls close()
Scope_exit(t) ==
    /\ tasks[t].pc = "has"
    /\ tasks[t].kind = "scoped"
    /\ \E h \in {"normal", "raise"} : CloseBegin(t, "scoped", tasks[t].got, h)
    /\ UNCHANGED <<settings, server_vars, caller_vars, pull_vars, exec_vars, value_vars, pool, lock>>

\* close() after its await: `self._http_client = None`
Close_finish(t) ==
    /\ tasks[t].pc = "closing"
    /\ pool' = NoPool
    /\ tasks' = [tasks EXCEPT ![t].pc = "closed"]
    /\ UNCHANGED <<settings, server_vars, caller_vars, pull_vars, exec_vars, value_vars, pools, lock>>

\* any number of coroutines on the client
NextPool ==
    \/ \E t \in Tasks : Ensure_check(t)
    \/ \E t \in Tasks : Ensure_acquire(t)
    \/ \E t \in Tasks : Ensure_create(t)
    \/ \E t \in Tasks : Op_end(t)
    \/ \E t \in Tasks : Close_call(t)
    \/ \E t \in Tasks : Scope_exit(t)
    \/ \E t \in Tasks : Close_finish(t)

SpecPool == Init /\ [][NextPool]_vars

\* no other coroutine is inside an operation or inside close()
Sequential(t) == \A u \in Tasks \ {t} : Startable(u)

\* the same client used by one coroutine at a time
NextCycle ==
    \/ \E t \in Tasks : Sequential(t) /\ Ensure_check(t)
    \/ \E t \in Tasks : Sequential(t) /\ Ensure_acquire(t)
    \/ \E t \in Tasks : Sequential(t) /\ Ensure_create(t)
    \/ \E t \in Tasks : Sequential(t) /\ Op_end(t)
    \/ \E t \in Tasks : Sequential(t) /\ Close_call(t)
    \/ \E t \in Tasks : Sequential(t) /\ Scope_exit(t)
    \/ \E t \in Tasks : Sequential(t) /\ Close_finish(t)

SpecCycle == Init /\ [][NextCycle]_vars

\* ------------------------------------------------------- reading a size
\* ModelInfo(name=..., size=s, modified=...) of client.py, or ModelSize(bytes=s)
Size_new ==
    /\ \E cls \in {"ModelInfo", "ModelSize"}, s \in Sizes :
          sized' = [cls |-> cls, size |-> s, bytes |-> s, reads |-> 0, text |-> <<>>]
    /\ UNCHANGED <<settings, server_vars, caller_vars, pull_vars, pool_vars, exec_vars, built, posted, descr, rated, asked>>

\* model.size_human is read
Read_size_human ==
    /\ sized.cls = "ModelInfo"
    /\ sized.reads < MaxReads
    /\ sized' = [sized EXCEPT !.reads = @ + 1, !.text = size_human(sized.bytes)]
    /\ UNCHANGED <<settings, server_vars, caller_vars, pull_vars, pool_vars, exec_vars, built, posted, descr, rated, asked>>

\* size.human_readable is read
Read_human_readable ==
    /\ sized.cls = "ModelSize"
    /\ sized.reads < MaxReads
    /\ sized' = [sized EXCEPT !.reads = @ + 1,
                              !.text = human_readable(sized.bytes).text,
                              !.bytes = human_readable(sized.bytes).bytes]
    /\ UNCHANGED <<settings, server_vars, caller_vars, pull_vars, pool_vars, exec_vars, built, posted, descr, rated, asked>>

NextSize ==
    \/ Size_new
    \/ Read_size_human
    \/ Read_human_readable

SpecSize == Init /\ [][NextSize]_vars

\* ------------------------------------------------ building a ChatRequest
\* a caller builds a ChatRequest
Request_new ==
    /\ \E message \in {<<"hi">>, <<" ", "hi">>, <<" ">>}, t \in Temperatures,
          k \in {None, Some(0), Some(16)} :
          built' = [message |-> message, temperature |-> t, max_tokens |-> k,
                    result |-> new_ChatRequest(M1, message, t, k)]
    /\ UNCHANGED <<settings, server_vars, caller_vars, pull_vars, pool_vars, exec_vars, sized,
                   posted, descr, rated, asked>>

\* the caller hands the request it built to chat or chat_stream, which posts
\* it; chat_stream first sets request.stream = True on the caller's object; a
\* constructor that raised left the caller nothing to hand over
Request_post ==
    /\ built.result.kind = "return"
    /\ Len(posted) < MaxPosts
    /\ \E o \in {"chat", "chat_stream"} :
          /\ o = "chat" =>
                chat_validate(allowed_models, blocked_models, built.result.val) = NoResult
          /\ posted' = Append(posted, GeneratePayload(o, built.result.val))
          /\ built' = IF o = "chat_stream"
                          THEN [built EXCEPT !.result.val.stream = TRUE]
                       ELSE built
    /\ UNCHANGED <<settings, server_vars, caller_vars, pull_vars, pool_vars, exec_vars, sized,
                   descr, rated, asked>>

NextRequest ==
    \/ Request_new
    \/ Request_post

SpecRequest == Init /\ [][NextRequest]_vars

\* ------------------------------------------------- building a ModelInfo
Descriptor_new ==
    /\ \E name \in SeqsUpTo(CharPool, MaxNameLen) :
          descr' = [name |-> name, result |-> new_ModelInfo(name)]
    /\ UNCHANGED <<settings, server_vars, caller_vars, pull_vars, pool_vars, exec_vars, sized,
                   built, posted, rated, asked>>

NextDescriptor == Descriptor_new

SpecDescriptor == Init /\ [][NextDescriptor]_vars

\* ----------------------------------------------- the rate of a response
\* chat gets a 200 with this body, and the caller reads tokens_per_second
\* of the ChatResponse it is given
Response_new ==
    /\ \E body \in RateBodies :
          LET r == chat(Response(200, <<>>, body), ChatRequest(M1))
          IN rated' = [body |-> body, result |-> r,
                       tokens_per_second |->
                           IF r.kind = "return" THEN tokens_per_second(r.val) ELSE None]
    /\ UNCHANGED <<settings, server_vars, caller_vars, pull_vars, pool_vars, exec_vars, sized,
                   built, posted, descr, asked>>

NextRate == Response_new

SpecRate == Init /\ [][NextRate]_vars

\* ------------------------------------------------------ the access policy
\* Settings(allowed_models=..., blocked_models=...).is_model_allowed(name)
Policy_ask ==
    /\ \E a \in RawLists, b \in RawLists, name \in PolicyNames :
          asked' = [pc |-> "asked", allowed |-> parse_model_lists(a),
                    blocked |-> parse_model_lists(b), name |-> name,
                    answer |-> is_model_allowed(parse_model_lists(a),
                                                parse_model_lists(b), name)]
    /\ UNCHANGED <<settings, server_vars, caller_vars, pull_vars, pool_vars, exec_vars, sized,
                   built, posted, descr, rated>>

NextPolicy == Policy_ask

SpecPolicy == Init /\ [][NextPolicy]_vars

\* ---------------------------------------------------------- the MCP server
\* OllamaMCPServer(): settings, client, Server and handlers; if any of it
\* raises, a fallback Server without client and without handlers
Server_new ==
    /\ srv.pc = "none"
    /\ \E raised \in BOOLEAN :
          srv' = [NoServer EXCEPT !.pc = "constructed", !.client = ~raised,
                                  !.handlers = ~raised]
    /\ UNCHANGED <<settings, caller_vars, pull_vars, pool_vars, exec_vars, value_vars>>

\* run() up to its health check, which it skips when there is no client
Server_run ==
    /\ srv.pc = "constructed"
    /\ srv' = [srv EXCEPT !.pc = IF srv.client THEN "starting" ELSE "serving"]
    /\ UNCHANGED <<settings, caller_vars, pull_vars, pool_vars, exec_vars, value_vars>>

\* the health check of run() ends, and run() goes on to serve over stdio
Server_health ==
    /\ srv.pc = "starting"
    /\ \E import \in ImportOutcomes, rep \in DictHealthReplies :
          LET e == dict_ensure_client(initialized, init_error, import)
              health == dict_health_check(e, rep)
          IN /\ initialized' = e.initialized
             /\ init_error' = e.init_error
             /\ srv' = [srv EXCEPT
                          !.pc = IF run_reads_health(health).kind = "raise"
                                     THEN "crashed" ELSE "serving",
                          !.health = health,
                          !.sent = IF e.ok /\ ~(rep.kind = "exc" /\ rep.exc \in PoolFailures)
                                       THEN 1 ELSE 0]
    /\ UNCHANGED <<settings, pooled_vars, pull_vars, pool_vars, exec_vars, value_vars>>

\* a tools/list request is answered
Server_list_tools ==
    /\ srv.pc = "serving"
    /\ srv.handlers
    /\ \E raised \in BOOLEAN : srv' = [srv EXCEPT !.tools = list_tools(raised)]
    /\ UNCHANGED <<settings, caller_vars, pull_vars, pool_vars, exec_vars, value_vars>>

\* a tools/call request is routed, awaited and answered
Server_call_tool ==
    /\ srv.pc = "serving"
    /\ srv.handlers
    /\ \E name \in ToolNames, outcome \in HandlerOutcomes :
          srv' = [srv EXCEPT
                    !.name = name,
                    !.routed = Route(name),
                    !.handler = outcome,
                    !.answer = call_tool(name, outcome),
                    !.failures = IF outcome.kind = "raise" /\ @ < MaxFailures
                                     THEN @ + 1 ELSE @]
    /\ UNCHANGED <<settings, caller_vars, pull_vars, pool_vars, exec_vars, value_vars>>

NextServer ==
    \/ Server_new
    \/ Server_run
    \/ Server_health
    \/ Server_list_tools
    \/ Server_call_tool

\* the health check of run() is one request with a five-second timeout, so
\* it ends
SpecServer == Init /\ [][NextServer]_vars /\ WF_vars(Server_health)

\* ----------------------------------------------- deadlines and timeouts
\* An executor-delegated operation is called: _ensure_client, then the
\* blocking call is handed to the executor and awaited under its deadline.
Exec_call ==
    /\ dcall.pc \in {"idle", "done"}
    /\ \E o \in ExecOps, import \in ImportOutcomes, d \in Durations :
          LET e == dict_ensure_client(initialized, init_error, import)
              arg == IF o = "list_models" THEN <<>> ELSE M1
          IN /\ initialized' = e.initialized
             /\ init_error' = e.init_error
             /\ dcall' =
                   IF e.ok
                       THEN [op |-> o, pc |-> "waiting", arg |-> arg, duration |-> d,
                             how |-> "none", result |-> NoResult]
                       ELSE [op |-> o, pc |-> "done", arg |-> arg, duration |-> 0,
                             how |-> "refused",
                             result |-> Return(dict_exec_refused(o, arg, e.init_error))]
    /\ UNCHANGED <<settings, server_vars, pooled_vars, pull_vars, pool_vars, value_vars, abandoned>>

\* the blocking call ends before the deadline and the operation goes on
Exec_complete ==
    /\ dcall.pc = "waiting"
    /\ dcall.duration < Deadline(dcall.op)
    /\ \E outcome \in ExecOutcomes(dcall.op) :
          dcall' = [dcall EXCEPT !.pc = "done", !.how = outcome.kind,
                                 !.result = dict_exec(dcall.op, dcall.arg, outcome)]
    /\ UNCHANGED <<settings, server_vars, caller_vars, pull_vars, pool_vars, value_vars, abandoned>>

\* the deadline passes first: wait_for raises in the operation, and the
\* blocking call, which a thread cannot be made to stop, runs on
Exec_deadline ==
    /\ dcall.pc = "waiting"
    /\ dcall.duration > Deadline(dcall.op)
    /\ abandoned < MaxAbandoned
    /\ dcall' = [dcall EXCEPT !.pc = "done", !.how = "deadline",
                               !.result = dict_exec(dcall.op, dcall.arg, DeadlinePassed)]
    /\ abandoned' = abandoned + 1
    /\ UNCHANGED <<settings, server_vars, caller_vars, pull_vars, pool_vars, value_vars>>

\* a blocking call that was given up on ends at last; no one reads its result
Exec_thread_end ==
    /\ abandoned > 0
    /\ abandoned' = abandoned - 1
    /\ UNCHANGED <<settings, server_vars, caller_vars, pull_vars, pool_vars, value_vars, dcall>>

\* the pooled operations whose request goes out
TimedOps ==
    {"health_check", "list_models", "get_model_info", "chat", "pull_model",
     "show_model_info"}

\* httpx gives up on a request of the pooled client
RequestTimeout == Failure(Exc("httpx.TimeoutException", <<>>))

\* a pooled operation whose request times out, from its call to its end
Pooled_timeout ==
    /\ pc \in {"idle", "done"}
    /\ \E o \in TimedOps, tt \in Times :
          /\ op' = o
          /\ reply' = RequestTimeout
          /\ model_name' = IF o \in {"get_model_info", "pull_model", "show_model_info"}
                              THEN M1 ELSE <<>>
          /\ request' = IF o = "chat" THEN ChatRequest(M1) ELSE NoRequest
          /\ job_id' = IF o = "pull_model" THEN JobId(M1, tt[1]) ELSE <<>>
          /\ result' =
                CASE o = "health_check" -> health_check(RequestTimeout, tt[2] - tt[1])
                  [] o = "list_models" -> list_models(RequestTimeout)
                  [] o = "get_model_info" -> get_model_info(RequestTimeout, M1)
                  [] o = "chat" -> chat(RequestTimeout, ChatRequest(M1))
                  [] o = "pull_model" ->
                        pull_model(RequestTimeout, M1, JobId(M1, tt[1]), tt[2])
                  [] o = "show_model_info" -> show_model_info(RequestTimeout, M1)
          /\ net' = <<RequestOf(o, ChatRequest(M1), M1)>>
    /\ pc' = "done"
    /\ ensured' = TRUE
    /\ http_client' = "open"
    /\ UNCHANGED <<settings, dict_client, pos, received, aux>>

NextTimeout ==
    \/ Exec_call
    \/ Exec_complete
    \/ Exec_deadline
    \/ Exec_thread_end
    \/ Pooled_timeout

SpecTimeout == Init /\ [][NextTimeout]_vars

\* ================================================================== claims
Done(o) == pc = "done" /\ op = o

Raised(type) == result.kind = "raise" /\ result.exc.type = type

PoolFailed == reply.kind = "exc" /\ reply.exc \in PoolFailures

\* ---- C1
\* the error of a health result that says unhealthy is a non-empty string
C1_ErrorPopulated ==
    IF op = "health_check"
        THEN result.val.error # None /\ ~IsEmptyStr(result.val.error[1])
        ELSE "error" \in DOMAIN result.val /\ ~IsEmptyStr(result.val.error)

C1_BodyParsed == reply.kind = "resp" /\ reply.json.t # "invalid"

C2_TypedOutcome ==
    (pc = "done"
        /\ op \in {"list_models", "chat", "show_model_info", "delete_model"}
        /\ reply.kind = "resp") =>
        \/ result.kind = "return"
        \/ result.kind = "raise" /\ result.exc.type \in TypedErrors

\* ---- C3
\* C3: chat on a 404 response raises ModelNotFoundError naming the requested
\* model; on any other non-200 status it raises ConnectionError carrying the
\* status code and the response body; chat's handlers re-wrap neither.
C3_ChatStatusMapping ==
    (Done("chat") /\ reply.kind = "resp" /\ reply.status # 200) =>
        IF reply.status = 404
            THEN /\ Raised("ModelNotFoundError")
                 /\ Contains(result.exc.msg, request.model)
                 /\ result.exc.msg[1] = "Model '"
            ELSE /\ Raised("OllamaConnectionError")
                 /\ Contains(result.exc.msg, IntStr(reply.status))
                 /\ Contains(result.exc.msg, reply.text)
                 /\ result.exc.msg[1] = "Chat request failed: HTTP "

C3_Witness ==
    /\ Done("chat")
    /\ request.model = GHOST
    /\ reply.kind = "resp"
    /\ reply.status = 404
    /\ result = Raise(Exc("ModelNotFoundError", <<"Model '", "g", "' not found">>))

\* ---- C4
\* C4: a chat whose model the allow/deny policy disallows has failed with
\* ValidationError without calling _ensure_client, without sending anything,
\* and the pool is as it was before the call.
C4_DisallowedChatNoNetwork ==
    /\ [](  (op = "chat"
              /\ ~is_model_allowed(allowed_models, blocked_models, request.model))
          => (pc = "done" /\ Raised("ValidationError") /\ net = <<>> /\ ~ensured))
    /\ [][ (op' = "chat"
              /\ ~is_model_allowed(allowed_models, blocked_models, request'.model))
           => http_client' = http_client ]_vars

C4_Witness ==
    /\ Done("chat")
    /\ request.model = GHOST
    /\ blocked_models = Some({GHOST})
    /\ http_client = "open"
    /\ Raised("ValidationError")
    /\ net = <<>>

\* ---- C5
\* C5: chat_stream applies chat's validation: for a model the policy
\* disallows it sends nothing and fails with ValidationError.
C5_StreamValidatesModel ==
    (op = "chat_stream"
        /\ ~is_model_allowed(allowed_models, blocked_models, request.model)) =>
        /\ net = <<>>
        /\ pc = "done"
        /\ Raised("ValidationError")

\* ---- C6
RECURSIVE C6_Fragments(_)
\* the `response` of every line that is a JSON object holding one, in order
C6_Fragments(lines) ==
    IF lines = <<>> THEN <<>>
    ELSE IF Head(lines).t = "object" /\ Head(lines).has_response
        THEN <<Head(lines).response>> \o C6_Fragments(Tail(lines))
        ELSE C6_Fragments(Tail(lines))

\* C6: for a 200 streaming response that the daemon closes after its lines
\* (blank, not JSON, or JSON objects), the consumer has received exactly the
\* fragments, in order, and the stream ended without error.
C6_StreamDeliversFragments ==
    (Done("chat_stream")
        /\ reply.kind = "resp" /\ reply.status = 200 /\ reply.closed
        /\ \A i \in 1..Len(reply.lines) : reply.lines[i].t # "number") =>
        /\ result.kind = "return"
        /\ received = C6_Fragments(reply.lines)

\* ---- C7
\* C7: list_models raises ConnectionError on every failure of the HTTP layer
\* (timeouts included) and on every non-200 status, raises ValidationError
\* when the 200 body is not JSON, and returns a sequence only for status 200
\* with a parseable body.
C7_ListModelsErrors ==
    Done("list_models") =>
        /\ result.kind \in {"return", "raise"}
        /\ reply.kind = "exc" => Raised("OllamaConnectionError")
        /\ (reply.kind = "resp" /\ reply.status # 200) => Raised("OllamaConnectionError")
        /\ (reply.kind = "resp" /\ reply.status = 200 /\ reply.json.t = "invalid")
              => Raised("ValidationError")
        /\ result.kind = "return" =>
              (reply.kind = "resp" /\ reply.status = 200 /\ reply.json.t # "invalid")

C7_Witness ==
    /\ Done("list_models")
    /\ reply = Failure(Exc("httpx.TimeoutException", <<>>))
    /\ Raised("OllamaConnectionError")

\* ---- C8
\* C8: for a 200 listing whose models array mixes well-formed and malformed
\* entries, list_models returns one descriptor per well-formed entry (an
\* entry whose ModelInfo can be built), in the daemon's order.
C8_MalformedEntriesSkipped ==
    (Done("list_models")
        /\ reply.kind = "resp" /\ reply.status = 200
        /\ reply.json.t = "object" /\ reply.json.models.t = "array") =>
        /\ result.kind = "return"
        /\ result.val =
              LET good == SelectSeq(reply.json.models.v, LAMBDA e : ParseEntry(e).ok)
              IN [i \in 1..Len(good) |-> ParseEntry(good[i]).val]

\* ---- C9
\* C9: get_model_info(name) returns the first descriptor of list_models
\* whose name is `name`, the absent value when list_models succeeds without
\* such a descriptor, and fails exactly as list_models fails.
C9_GetModelInfo ==
    Done("get_model_info") =>
        LET listed == list_models(reply)
        IN IF listed.kind = "raise" THEN result = listed
           ELSE /\ result.kind = "return"
                /\ (\A i \in 1..Len(listed.val) : listed.val[i].name # model_name)
                      => result.val = None
                /\ \A i \in 1..Len(listed.val) :
                      ( /\ listed.val[i].name = model_name
                        /\ \A j \in 1..(i - 1) : listed.val[j].name # model_name )
                      => result.val = Some(listed.val[i])

\* the name is listed twice, with different sizes, and the first is returned
C9_Witness ==
    /\ Done("get_model_info")
    /\ model_name = M1
    /\ reply.kind = "resp" /\ reply.status = 200
    /\ reply.json.t = "object" /\ reply.json.models.t = "array"
    /\ Len(reply.json.models.v) = 2
    /\ reply.json.models.v[1].size.v = 7
    /\ reply.json.models.v[2].size.v = 2048
    /\ result.kind = "return"
    /\ result.val # None
    /\ result.val[1].name = M1
    /\ result.val[1].size = 7

\* ---- C10
C10_Refused(name) ==
    \/ Strip(name) = <<>>
    \/ ~is_model_allowed(allowed_models, blocked_models, name)

C10_Post(name) ==
    [method |-> "POST", path |-> "/api/pull", name |-> name, stream |-> FALSE]

\* C10 (as amended): pull_model with an empty, whitespace-only or disallowed
\* name fails with ValidationError before anything is sent; for every other
\* name at most one POST /api/pull is sent: exactly one once the pool has
\* been obtained, none when making the pool raises.
C10_PullValidatesThenPostsOnce ==
    op = "pull_model" =>
        IF C10_Refused(model_name)
            THEN pc = "done" /\ Raised("ValidationError") /\ net = <<>> /\ ~ensured
            ELSE /\ pc \in {"ensure", "send"} => net = <<>>
                 /\ pc = "wait" => net = <<C10_Post(model_name)>>
                 /\ pc = "done" =>
                       net = IF PoolFailed THEN <<>> ELSE <<C10_Post(model_name)>>

\* C10 as claimed: every name that passes validation gets exactly one POST.
C10_ExactlyOnePost ==
    (Done("pull_model") /\ ~C10_Refused(model_name)) => net = <<C10_Post(model_name)>>

C10_Witness ==
    /\ Done("pull_model")
    /\ model_name = M2
    /\ net = <<C10_Post(M2)>>
    /\ result.kind = "return"
    /\ result.val.status = "completed"

C12_JobIdsUnique ==
    \A i, j \in 1..Len(jobs) : i # j => jobs[i] # jobs[j]

\* ---- C13
\* C13: a delete_model that got its pool has sent DELETE /api/delete to the
\* daemon and ends as the daemon answered: true exactly for status 200,
\* ModelNotFoundError (not turned into ConnectionError) for 404, false for
\* every other status, ConnectionError when the request failed in the network.
C13_DeleteStatusMapping ==
    (Done("delete_model") /\ ~PoolFailed) =>
        /\ net = <<[method |-> "DELETE", path |-> "/api/delete", name |-> model_name,
                    stream |-> FALSE]>>
        /\ reply.kind = "resp" =>
              IF reply.status = 200 THEN result = Return(TRUE)
              ELSE IF reply.status = 404 THEN Raised("ModelNotFoundError")
              ELSE result = Return(FALSE)
        /\ reply.kind = "exc" =>
              /\ IsInstance(reply.exc.type, "httpx.RequestError")
              /\ Raised("OllamaConnectionError")

\* ---- C14
\* no close() has closed a pool so far
C14_NoCloseYet == \A k \in 1..Len(pools) : pools[k] = "open"

\* C14 (pool creation may raise): no pool exists after construction; as long
\* as nothing has been closed, coroutines that call operations concurrently
\* construct at most one pool in every interleaving, and every coroutine to
\* which _ensure_client returns is handed that one pool, which the client
\* refers to.
C14_SinglePool ==
    /\ pool = NoPool /\ pools = <<>>
    /\ [](C14_NoCloseYet =>
            /\ Len(pools) <= 1
            /\ \A t \in Tasks :
                  tasks[t].pc = "has" =>
                      (Len(pools) = 1 /\ pool = 1 /\ tasks[t].got = pool))

\* C14 as claimed: every one of the concurrent callers receives the pool.
C14_EveryCallerReceivesPool ==
    C14_NoCloseYet =>
        \A t \in Tasks : tasks[t].pc \in {"has", "failed"} =>
            (tasks[t].pc = "has" /\ tasks[t].got = 1)

\* two coroutines found no pool; one has constructed it and the other,
\* holding the lock, is about to find it there
C14_Witness ==
    /\ C14_NoCloseYet
    /\ Len(pools) = 1
    /\ \E t, u \in Tasks :
          /\ tasks[t].pc = "has" /\ tasks[t].got = 1
          /\ tasks[u].pc = "locked" /\ lock = u

C16_SaysTimeout(error) == \E i \in 1..Len(error) : error[i] \in {"Timeout", "timeout"}

C17_Units == <<"B", "KB", "MB", "GB", "TB", "PB">>

RECURSIVE C17_Scaled(_, _)
\* size / 1024^k
C17_Scaled(size, k) == IF k = 0 THEN size ELSE C17_Scaled(Div1024(size), k - 1)

\* C17: for every byte size >= 0 each read of either renderer
\* (ModelInfo.size_human of the dataclass, ModelSize.human_readable) takes the
\* smallest unit of B, KB, MB, GB, TB, PB in which the size is below 1024 and
\* gives the size in that unit with one decimal digit, a space and the unit
\* (512 -> "512.0 B", 1024 -> "1.0 KB").
C17_SmallestUnitOneDecimal ==
    sized.reads >= 1 =>
        \E k \in 0..5 :
            /\ Below1024(C17_Scaled(sized.size, k))
            /\ \A j \in 0..(k - 1) : ~Below1024(C17_Scaled(sized.size, j))
            /\ sized.text = FormatF1(C17_Scaled(sized.size, k)) \o <<" ", C17_Units[k + 1]>>

\* ---- C18
\* below 0.0 or above 2.0
C18_OutOfRange(v) == ~v.nan /\ (v.tenths < 0 \/ v.tenths > 20)

\* in the closed range from 0.0 to 2.0
C18_InRange(v) == ~v.nan /\ v.tenths >= 0 /\ v.tenths <= 20

\* the validation error of the last ChatRequest call names the temperature
C18_TemperatureRefused ==
    /\ built.result.kind = "raise"
    /\ built.result.exc.type = "pydantic.ValidationError"
    /\ \E i \in 1..Len(built.result.exc.msg) : built.result.exc.msg[i] = "temperature"

\* C18: building a ChatRequest fails with a validation error for every
\* temperature below 0.0 or above 2.0 and, its other fields being valid,
\* succeeds for every temperature from 0.0 to 2.0, both ends included, which
\* it keeps; chat and chat_stream are handed built requests only, so no
\* generate request ever carries a temperature outside the range.
C18_TemperatureValidated ==
    /\ built.result.kind # "none" =>
          /\ C18_OutOfRange(built.temperature) => C18_TemperatureRefused
          /\ C18_InRange(built.temperature) => ~C18_TemperatureRefused
          /\ ( /\ C18_InRange(built.temperature)
               /\ Strip(built.message) # <<>>
               /\ (built.max_tokens = None \/ built.max_tokens[1] > 0) ) =>
                /\ built.result.kind = "return"
                /\ built.result.val.temperature = built.temperature
    /\ \A i \in 1..Len(posted) : C18_InRange(posted[i].options.temperature)

\* a request at 2.0 was posted, and the next one, at 2.1, was refused
C18_Witness ==
    /\ posted # <<>>
    /\ posted[1].options.temperature = Float(20)
    /\ built.temperature = Float(21)
    /\ C18_TemperatureRefused

\* ---- C19
\* C19: building a ModelInfo succeeds exactly when the name, once the
\* whitespace around it is trimmed, is non-empty and made of characters of
\* [A-Za-z0-9._:-] only; a name with any other character fails; on success the
\* name kept is the trimmed one.
C19_ValidIffTrimmedNameValid ==
    descr.result.kind # "none" =>
        /\ descr.result.kind = "return" <=> AllNameChars(Strip(descr.name))
        /\ descr.result.kind = "return" => descr.result.val.name = Strip(descr.name)
        /\ (\E i \in 1..Len(Strip(descr.name)) : Strip(descr.name)[i] \notin NameChars)
              => descr.result.kind = "raise"

\* ---- C20
\* the nanoseconds of a duration member, 0 when the daemon leaves it out
C20_Ns(f) == IF f.t = "int" THEN f.v ELSE 0

\* ms is ns / 1,000,000
C20_IsMs(ms, ns) ==
    /\ ms # None
    /\ ms[1].micro >= 0 /\ ms[1].micro < 1000000
    /\ ms[1].whole * 1000000 + ms[1].micro = ns

\* C20: the ChatResponse chat returns has each duration of the daemon's body
\* (total, load, prompt-eval, eval) divided by 1,000,000, and its
\* tokens_per_second is eval_count * 1000 / eval_duration_ms when the count is
\* there and the duration is not zero, and None otherwise; so it is None when
\* the daemon leaves eval_duration out or gives 0.
C20_DurationsAndRate ==
    rated.result.kind = "return" =>
        LET b == rated.body
            r == rated.result.val
        IN /\ C20_IsMs(r.total_duration_ms, C20_Ns(b.total_duration))
           /\ C20_IsMs(r.load_duration_ms, C20_Ns(b.load_duration))
           /\ C20_IsMs(r.prompt_eval_duration_ms, C20_Ns(b.prompt_eval_duration))
           /\ C20_IsMs(r.eval_duration_ms, C20_Ns(b.eval_duration))
           /\ IF b.eval_count.t = "int" /\ C20_Ns(b.eval_duration) # 0
                 THEN rated.tokens_per_second =
                          Some(Quotient(b.eval_count.v * 1000, r.eval_duration_ms[1]))
                 ELSE rated.tokens_per_second = None

\* 10 tokens in 1.5 ms
C20_Witness ==
    /\ rated.result.kind = "return"
    /\ rated.body.eval_count = Fld("int", 10)
    /\ rated.body.eval_duration = Fld("int", 1500000)
    /\ rated.tokens_per_second = Some(Quotient(10000, [whole |-> 1, micro |-> 500000]))

\* ---- C21
\* C21: the host of every health-check result is the target the client was
\* configured with (in the dict-returning client with its trailing slashes
\* removed), whatever the outcome: healthy, initialisation failure, timeout,
\* HTTP error status, connection refused, invalid JSON, unexpected exception.
C21_HostEchoed ==
    (pc = "done" /\ op \in {"health_check", "dict_health_check"}) =>
        /\ result.kind = "return"
        /\ op = "health_check" => result.val.host = BaseUrl
        /\ op = "dict_health_check" =>
              /\ result.val.host = RStripSlash(DictHostArg)
              /\ result.val.host[Len(result.val.host)] # "/"

\* the dict-returning client, given a host that ends in a slash, reports a
\* body that is not JSON
C21_Witness ==
    /\ Done("dict_health_check")
    /\ DictHostArg[Len(DictHostArg)] = "/"
    /\ reply.kind = "resp" /\ reply.status = 200 /\ reply.json.t = "invalid"
    /\ ~result.val.healthy
    /\ result.val.host = <<"http://localhost:11434">>

\* ---- C22
\* C22: a failing tool call never leaves call_tool. Whatever the name and
\* whatever exception the routed handler raises, call_tool returns exactly one
\* text block, "Error executing <name>: ...", and raises nothing; the seven
\* advanced names go to the advanced handler and every other name, known or
\* not, to the base handler; and however many calls have failed the server
\* goes on serving.
C22_FailingCallContained ==
    /\ [](srv.handler.kind # "none" =>
            /\ srv.answer.kind = "return"
            /\ srv.routed = "advanced" <=>
                  srv.name \in {"suggest_models", "download_model",
                                "check_download_progress", "remove_model",
                                "search_available_models", "start_ollama_server",
                                "select_chat_model"}
            /\ srv.routed \in {"advanced", "base"}
            /\ srv.handler.kind = "raise" =>
                  /\ Len(srv.answer.val) = 1
                  /\ srv.answer.val[1].type = "text"
                  /\ SubSeq(srv.answer.val[1].text, 1, 3)
                        = <<"Error executing ", srv.name, ": ">>)
    /\ [][srv.pc = "serving" => srv'.pc = "serving"]_vars

\* after as many failures as are counted, a call for a name no handler
\* knows fails too and is answered with the error block
C22_Witness ==
    /\ srv.pc = "serving"
    /\ srv.failures = MaxFailures
    /\ srv.name = "unknown_tool"
    /\ srv.routed = "base"
    /\ srv.handler = Raise(Exc("KeyError", <<"boom">>))
    /\ srv.answer = Return(<<TextContent(<<"Error executing ", "unknown_tool", ": ", "boom">>)>>)

\* ---- C23
\* C23: the server starts whether or not the daemon can be reached. The
\* constructor sends nothing to the daemon and does not raise; run() gets from
\* its health check to serving, with the tool list and tool calls registered,
\* when the check says healthy and when it says unhealthy, and never ends in
\* an error because of the check.
C23_ServerStarts ==
    /\ [](srv.pc = "constructed" => srv.sent = 0)
    /\ [](srv.pc # "crashed")
    /\ [][(srv.pc = "starting" /\ srv' # srv) =>
            /\ srv'.pc = "serving"
            /\ srv'.handlers
            /\ srv'.health.kind = "return"
            /\ srv'.health.val.healthy \in BOOLEAN]_vars
    /\ (srv.pc = "starting") ~> (srv.pc = "serving")

\* the daemon refused the connection, and the server lists its tools
C23_Witness ==
    /\ srv.pc = "serving"
    /\ srv.sent = 1
    /\ srv.health.kind = "return"
    /\ ~srv.health.val.healthy
    /\ srv.health.val.error = <<"Connection refused">>
    /\ srv.tools.kind = "return"
    /\ Len(srv.tools.val) = 11

\* ---- C24
\* C24: list_models, chat, pull_model and remove_model of the dict-returning
\* client never raise. Whatever the blocking call does (value, exception,
\* deadline) and however initialisation went, they return a mapping with a
\* boolean success; with success false it has an error, a failed list_models
\* has models = [] and a failed chat response = ""; when list_models
\* succeeds, count is the number of models it returns.
C24_DictOpsNeverRaise ==
    dcall.pc = "done" =>
        /\ dcall.result.kind = "return"
        /\ "success" \in DOMAIN dcall.result.val
        /\ dcall.result.val.success \in BOOLEAN
        /\ ~dcall.result.val.success =>
              /\ "error" \in DOMAIN dcall.result.val
              /\ dcall.op = "list_models" => dcall.result.val.models = <<>>
              /\ dcall.op = "chat" => dcall.result.val.response = <<>>
        /\ (dcall.result.val.success /\ dcall.op = "list_models") =>
              dcall.result.val.count = Len(dcall.result.val.models)

\* chat is given something that is not a mapping and reports the failure
C24_Witness ==
    /\ dcall.pc = "done"
    /\ dcall.op = "chat"
    /\ dcall.how = "value"
    /\ dcall.result.kind = "return"
    /\ ~dcall.result.val.success
    /\ dcall.result.val.error = <<"object has no attribute 'get'">>
    /\ dcall.result.val.response = <<>>

\* ---- C25
\* C25: the pool reference is replaced only while the lock is held: in every
\* step that changes it, close() included, the coroutine making the step
\* holds the initialisation lock.
C25_ReplacedUnderLock ==
    [][pool' # pool =>
         \E t \in Tasks : lock = t /\ tasks'[t] # tasks[t]]_vars

\* ---- C26
\* C26: domain values are not mutated by reading or using them: after any
\* number of reads of size_human / human_readable the stored byte count is
\* still the one the object was built with, and a ChatRequest that was handed
\* to chat or chat_stream still has every field as its constructor left it.
C26_ValuesNotMutated ==
    /\ sized.reads >= 1 => sized.bytes = sized.size
    /\ (built.result.kind = "return" /\ posted # <<>>) =>
          built.result = new_ChatRequest(M1, built.message, built.temperature,
                                         built.max_tokens)

\* ---- C27
\* the names of a list setting; none when it is not configured
C27_Names(optset) == IF optset = None THEN {} ELSE optset[1]

\* some name of the list equals the name asked about, character by character
C27_Listed(optset, name) ==
    \E n \in C27_Names(optset) :
        Len(n) = Len(name) /\ \A i \in 1..Len(n) : n[i] = name[i]

C28_Called == dcall.pc \in {"idle", "done"} /\ dcall' # dcall

\* the call just made was refused with the failure result of its operation
C28_Refused ==
    /\ dcall'.pc = "done"
    /\ dcall'.how = "refused"
    /\ dcall'.result = Return(dict_exec_refused(dcall'.op, dcall'.arg, init_error'))
    /\ abandoned' = abandoned

\* C28: the dict-returning client is initialised at most once: once
\* _initialized is true it stays true and _init_error never changes again, so
\* every later _ensure_client gives what the first gave; the first attempt
\* leaves _init_error unset when it succeeded and set to "ollama package not
\* installed..." or "Failed to initialize..." when it failed; and a call made
\* while _ensure_client says no ends at once in its failure result, no
\* blocking call to the daemon being started.
C28_InitialisedOnce ==
    [][/\ initialized => (initialized' /\ init_error' = init_error)
       /\ (~initialized /\ initialized') =>
             init_error' \in {None,
                              Some(<<"ollama package not installed. Run: pip install ollama">>),
                              Some(<<"Failed to initialize: ", "boom">>)}
       /\ C28_Called =>
             /\ initialized'
             /\ init_error' = None => dcall'.pc = "waiting"
             /\ init_error' # None => C28_Refused
       /\ dcall'.pc = "waiting" => init_error' = None]_vars

\* list_models was refused by a client whose initialisation had failed on the
\* import
C28_Witness ==
    /\ initialized
    /\ init_error = Some(<<"ollama package not installed. Run: pip install ollama">>)
    /\ dcall.pc = "done"
    /\ dcall.op = "list_models"
    /\ dcall.how = "refused"
    /\ dcall.result = Return([success |-> FALSE, error |-> init_error, models |-> <<>>])

\* ---- C29
\* C29: no pool is leaked by a close() that overlaps another operation: in
\* every state each pool that is still open is the one the client's
\* reference names.
C29_NoOpenPoolUnreferenced ==
    \A i \in 1..Len(pools) : pools[i] = "open" => pool = i

====
